---- MODULE Spec2Model ----
(***************************************************************************)
(* A model of the go-vnc RFB client: the handshake state machine           *)
(* (ClientConn.Handshake and its phases) and the server-message dispatch   *)
(* (ClientConn.ReceiveMsg and the four RFC-required decoders), at the      *)
(* level of the bytes on the transport.                                    *)
(***************************************************************************)
EXTENDS Integers, Sequences, FiniteSets, TLC

VARIABLES
    pc,               \* position of the client: a handshake phase, Ready, Failed, Crashed
    inp,              \* every byte the server has put on the stream so far
    rpos,             \* number of bytes of inp the client has consumed (c.r)
    closed,           \* the server has closed its side of the stream
    wr,               \* every Write call on c.c: [by, data, ok]
    err,              \* error returned by the last operation ("" = nil)
    phases,           \* history: the handshake phases run, each with its error
    config,           \* c.config: [Auth, Exclusive, ServerMessages]
    protocolVersion,  \* c.protocolVersion (bytes; <<>> = "")
    securityType,     \* c.securityType
    pixelFormat,      \* c.pixelFormat (NilPixelFormat = nil)
    encodingMap,      \* key set of c.encodingMap
    FrameBufferWidth,
    FrameBufferHeight,
    DesktopName,
    sent,             \* history: the server messages put on the stream, in order
    got,              \* history: the results of the ReceiveMsg calls, in order
    last              \* history: what the last operation was and what it saw

vars == <<pc, inp, rpos, closed, wr, err, phases, config, protocolVersion,
          securityType, pixelFormat, encodingMap, FrameBufferWidth,
          FrameBufferHeight, DesktopName, sent, got, last>>

(***************************************************************************)
(* Bounds of the model.                                                    *)
(***************************************************************************)
MaxSecTypes == 2      \* longest security-type list the server offers
MaxReasonLen == 1     \* longest error-reason string the server sends
MaxNameLen == 1       \* longest desktop name besides "Test"

(***************************************************************************)
(* Bytes and the wire codec (big-endian fixed-size fields).                *)
(***************************************************************************)
Byte == 0..255

Min(S) == CHOOSE x \in S : \A y \in S : x <= y

\* binary.Write of a uint16 / uint32, network byte order
U16(n) == <<(n \div 256) % 256, n % 256>>

U32(n) == <<(n \div 16777216) % 256, (n \div 65536) % 256, (n \div 256) % 256, n % 256>>

\* the n bytes of s that follow the first p
Bytes(s, p, n) == SubSeq(s, p + 1, p + n)

\* io.ReadFull / readFixedSize succeed only when n more bytes arrive
Has(s, p, n) == p + n <= Len(s)

\* binary.Read of a uint16 / uint32 at offset p
BEU16(s, p) == s[p + 1] * 256 + s[p + 2]

BEU32(s, p) == s[p + 1] * 16777216 + s[p + 2] * 65536 + s[p + 3] * 256 + s[p + 4]

\* every proper prefix of a chunk: the server closes before completing it
Prefixes(s) == {SubSeq(s, 1, n) : n \in 0..(Len(s) - 1)}

(***************************************************************************)
(* Protocol versions.                                                      *)
(***************************************************************************)
ProtocolVersion3_3 == <<82, 70, 66, 32, 48, 48, 51, 46, 48, 48, 51, 10>>

ProtocolVersion3_7 == <<82, 70, 66, 32, 48, 48, 51, 46, 48, 48, 55, 10>>

ProtocolVersion3_8 == <<82, 70, 66, 32, 48, 48, 51, 46, 48, 48, 56, 10>>

\* Go's string comparison a < b: bytewise lexicographic
RECURSIVE StrLess(_, _)
StrLess(a, b) ==
    IF b = <<>> THEN FALSE
    ELSE IF a = <<>> THEN TRUE
    ELSE IF a[1] # b[1] THEN a[1] < b[1]
    ELSE StrLess(Tail(a), Tail(b))

StrGeq(a, b) == ~StrLess(a, b)

IsDigit(b) == b >= 48 /\ b <= 57

\* the end of the run of decimal digits of s that starts after offset p
RECURSIVE ScanDigits(_, _)
ScanDigits(s, p) ==
    IF p < Len(s) /\ IsDigit(s[p + 1]) THEN ScanDigits(s, p + 1) ELSE p

\* the value of the decimal digits s[p+1 .. q]
RECURSIVE DigitsVal(_, _, _)
DigitsVal(s, p, q) ==
    IF q <= p THEN 0 ELSE DigitsVal(s, p, q - 1) * 10 + (s[q] - 48)

\* fmt.Sscanf(s, "RFB %d.%d\n", &major, &minor): [n, major, minor, ok]
Sscanf(s) ==
    IF ~(Len(s) >= 4 /\ SubSeq(s, 1, 4) = <<82, 70, 66, 32>>)
    THEN [n |-> 0, major |-> 0, minor |-> 0, ok |-> FALSE]
    ELSE LET e1 == ScanDigits(s, 4) IN
         IF e1 = 4 THEN [n |-> 0, major |-> 0, minor |-> 0, ok |-> FALSE]
         ELSE LET mj == DigitsVal(s, 4, e1) IN
              IF ~(e1 < Len(s) /\ s[e1 + 1] = 46)
              THEN [n |-> 1, major |-> mj, minor |-> 0, ok |-> FALSE]
              ELSE LET e2 == ScanDigits(s, e1 + 1) IN
                   IF e2 = e1 + 1
                   THEN [n |-> 1, major |-> mj, minor |-> 0, ok |-> FALSE]
                   ELSE LET mn == DigitsVal(s, e1 + 1, e2) IN
                        [n |-> 2, major |-> mj, minor |-> mn,
                         ok |-> e2 < Len(s) /\ s[e2 + 1] = 10]

\* the version negotiated for a supported minor
Mut_NegotiatedVersion(minor) ==
    IF minor < 7 THEN ProtocolVersion3_3
    ELSE IF minor = 7 THEN ProtocolVersion3_7
    ELSE IF minor = 8 THEN ProtocolVersion3_8
    ELSE ProtocolVersion3_3

NegotiatedVersion(minor) ==
    IF minor < 7 THEN ProtocolVersion3_3
    ELSE IF minor = 7 THEN ProtocolVersion3_7
    ELSE ProtocolVersion3_8

\* the checks of hsProtocolVersion on the 12 bytes read: the error, "" for none
VersionError(pvBuf) ==
    LET sc == Sscanf(pvBuf) IN
    IF ~sc.ok THEN "ScanError"
    ELSE IF sc.n # 2 THEN "InvalidVersionFormat"
    ELSE IF sc.major # 3 \/ sc.minor < 3 THEN "UnsupportedVersion"
    ELSE ""

(***************************************************************************)
(* Security types and the client's authentication schemes.                 *)
(***************************************************************************)
InvalidSecType == 0

NoneSecType == 1

VNCSecType == 2

\* hsErrorReason at offset p: u32 length, then that many bytes
hsErrorReason(s, p) ==
    IF ~Has(s, p, 4) THEN [ok |-> FALSE, pos |-> Len(s), reason |-> <<>>]
    ELSE LET reasonLen == BEU32(s, p) IN
         IF ~Has(s, p + 4, reasonLen)
         THEN [ok |-> FALSE, pos |-> Len(s), reason |-> <<>>]
         ELSE [ok |-> TRUE, pos |-> p + 4 + reasonLen,
               reason |-> Bytes(s, p + 4, reasonLen)]

\* the FindAuth loop taken in the server's order instead of the client's
Mut_FindAuth(clientSecTypes, serverSecTypes) ==
    LET J == {j \in DOMAIN serverSecTypes :
                 \E i \in DOMAIN clientSecTypes : clientSecTypes[i] = serverSecTypes[j]}
    IN IF J = {} THEN InvalidSecType ELSE serverSecTypes[Min(J)]

\* the FindAuth loop of hsSecurity: the first client scheme (by type) that the
\* server lists; InvalidSecType stands for auth == nil
FindAuth(clientSecTypes, serverSecTypes) ==
    LET I == {i \in DOMAIN clientSecTypes :
                 \E j \in DOMAIN serverSecTypes : clientSecTypes[i] = serverSecTypes[j]}
    IN IF I = {} THEN InvalidSecType ELSE clientSecTypes[Min(I)]

\* hsSecurity up to the choice of the scheme, reading at offset p of s:
\* [err, pos, auth, out] where out holds the data of the Write calls made
hsSecurityChoose(s, p, version, auths) ==
    IF StrGeq(version, ProtocolVersion3_7)
    THEN IF ~Has(s, p, 1)
         THEN [err |-> "EOF", pos |-> Len(s), auth |-> InvalidSecType, out |-> <<>>]
         ELSE LET numSecTypes == s[p + 1] IN
              IF numSecTypes = 0
              THEN [err |-> "NoSecurityTypes", pos |-> hsErrorReason(s, p + 1).pos,
                    auth |-> InvalidSecType, out |-> <<>>]
              ELSE IF ~Has(s, p + 1, numSecTypes)
              THEN [err |-> "EOF", pos |-> Len(s), auth |-> InvalidSecType, out |-> <<>>]
              ELSE LET serverSecTypes == Bytes(s, p + 1, numSecTypes)
                       auth == FindAuth(auths, serverSecTypes)
                   IN IF auth = InvalidSecType
                      THEN [err |-> "NoSuitableAuth", pos |-> p + 1 + numSecTypes,
                            auth |-> InvalidSecType, out |-> <<>>]
                      ELSE [err |-> "", pos |-> p + 1 + numSecTypes,
                            auth |-> auth, out |-> << <<auth>> >>]
    ELSE IF ~Has(s, p, 4)
         THEN [err |-> "EOF", pos |-> Len(s), auth |-> InvalidSecType, out |-> <<>>]
         ELSE LET secType == BEU32(s, p) IN
              IF secType = 0
              THEN [err |-> "FailedToConnect", pos |-> p + 4,
                    auth |-> InvalidSecType, out |-> <<>>]
              ELSE LET auth == FindAuth(auths, <<secType % 256>>) IN
                   IF auth = InvalidSecType
                   THEN [err |-> "NoSuitableAuth", pos |-> p + 4,
                         auth |-> InvalidSecType, out |-> <<>>]
                   ELSE [err |-> "", pos |-> p + 4, auth |-> auth, out |-> <<>>]

\* the SecurityResult is read always, also for None below 3.8
Mut_SkipSecurityResult(secType, version) == FALSE

\* the condition under which hsSecurity returns without hsSecurityResult
SkipSecurityResult(secType, version) ==
    secType = NoneSecType /\ StrLess(version, ProtocolVersion3_8)

\* hsSecurityResult reading at offset p of s: [err, pos]
hsSecurityResultAt(s, p, version) ==
    IF ~Has(s, p, 4) THEN [err |-> "EOF", pos |-> Len(s)]
    ELSE LET secResult == BEU32(s, p) IN
         IF secResult = 0 THEN [err |-> "", pos |-> p + 4]
         ELSE IF StrGeq(version, ProtocolVersion3_8)
         THEN [err |-> "SecurityFailed", pos |-> hsErrorReason(s, p + 4).pos]
         ELSE [err |-> "SecurityFailed", pos |-> p + 4]

(***************************************************************************)
(* Encoding types (EncodingType is an int32).                              *)
(***************************************************************************)
RawEncType == 0

CopyRectEncType == 1

HextileEncType == 5

DesktopSizePseudoEncType == -223

CursorPseudoEncType == -239

(***************************************************************************)
(* Pixel formats.                                                          *)
(***************************************************************************)
ColorMapSize == 256

Black == [R |-> 0, G |-> 0, B |-> 0]

\* the 16-byte RFBPixelFormat record at offset p (binary.Read, big-endian)
ReadRFBPixelFormat(s, p) ==
    [BPP |-> s[p + 1], Depth |-> s[p + 2], BigEndian |-> s[p + 3],
     TrueColor |-> s[p + 4], RedMax |-> BEU16(s, p + 4),
     GreenMax |-> BEU16(s, p + 6), BlueMax |-> BEU16(s, p + 8),
     RedShift |-> s[p + 11], GreenShift |-> s[p + 12], BlueShift |-> s[p + 13]]

\* the same record as the server (or SetPixelFormat) puts it on the wire
RFBPixelFormatBytes(rpf) ==
    <<rpf.BPP, rpf.Depth, rpf.BigEndian, rpf.TrueColor>> \o U16(rpf.RedMax)
        \o U16(rpf.GreenMax) \o U16(rpf.BlueMax)
        \o <<rpf.RedShift, rpf.GreenShift, rpf.BlueShift, 0, 0, 0>>

NilRFBPixelFormat ==
    [BPP |-> 0, Depth |-> 0, BigEndian |-> 0, TrueColor |-> 0, RedMax |-> 0,
     GreenMax |-> 0, BlueMax |-> 0, RedShift |-> 0, GreenShift |-> 0, BlueShift |-> 0]

\* c.pixelFormat == nil
NilPixelFormat ==
    [nil |-> TRUE, ByPP |-> 0, ByteOrder |-> "", rpf |-> NilRFBPixelFormat,
     ColorMap |-> <<>>]

\* a colour map is allocated whatever the format
Mut_NewPixelFormat(rpf) ==
    [nil |-> FALSE,
     ByPP |-> rpf.BPP \div 8,
     ByteOrder |-> IF rpf.BigEndian = 0 THEN "LittleEndian" ELSE "BigEndian",
     rpf |-> rpf,
     ColorMap |-> [i \in 1..ColorMapSize |-> Black]]

NewPixelFormat(rpf) ==
    [nil |-> FALSE,
     ByPP |-> rpf.BPP \div 8,
     ByteOrder |-> IF rpf.BigEndian = 0 THEN "LittleEndian" ELSE "BigEndian",
     rpf |-> rpf,
     ColorMap |-> IF rpf.TrueColor = 0 THEN [i \in 1..ColorMapSize |-> Black] ELSE <<>>]

\* the shared flag is written as 1 whatever the configuration says
Mut_SharedFlag(exclusive) == 1

\* the ClientInit byte of hsInit
SharedFlag(exclusive) == IF exclusive THEN 0 ELSE 1

\* hsInit reading ServerInit at offset p of s, after its Write succeeded:
\* [err, pos, n, w, h, pf, name] where n counts the fields stored before the
\* first failing read (width, height, pixel format, name)
hsInitRead(s, p) ==
    LET none == [err |-> "EOF", pos |-> Len(s), n |-> 0, w |-> 0, h |-> 0,
                 pf |-> NilPixelFormat, name |-> <<>>]
    IN IF ~Has(s, p, 2) THEN none
       ELSE LET w == BEU16(s, p) IN
       IF ~Has(s, p + 2, 2) THEN [none EXCEPT !.n = 1, !.w = w]
       ELSE LET h == BEU16(s, p + 2) IN
       IF ~Has(s, p + 4, 16) THEN [none EXCEPT !.n = 2, !.w = w, !.h = h]
       ELSE LET pf == NewPixelFormat(ReadRFBPixelFormat(s, p + 4))
                some == [none EXCEPT !.n = 3, !.w = w, !.h = h, !.pf = pf]
            IN
       IF ~Has(s, p + 20, 4) THEN some
       ELSE LET nameLength == BEU32(s, p + 20) IN
       IF ~Has(s, p + 24, nameLength) THEN some
       ELSE [err |-> "", pos |-> p + 24 + nameLength, n |-> 4, w |-> w, h |-> h,
             pf |-> pf, name |-> Bytes(s, p + 24, nameLength)]

(***************************************************************************)
(* ClientConn.Handshake: the order of the phases.                          *)
(***************************************************************************)
\* a failure of the version phase is dropped and the handshake goes on
Mut_AfterPhase(phase, e, skip) ==
    IF e # "" /\ phase # "ProtocolVersion" THEN "Failed"
    ELSE IF phase = "ProtocolVersion" THEN "Security"
    ELSE IF phase = "Security" THEN "Auth"
    ELSE IF phase = "Auth" THEN (IF skip THEN "Init" ELSE "SecurityResult")
    ELSE IF phase = "SecurityResult" THEN "Init"
    ELSE "Ready"

\* where Handshake (and hsSecurity within it) goes after a phase returned e;
\* skip says that hsSecurity returns without hsSecurityResult
AfterPhase(phase, e, skip) ==
    IF e # "" THEN "Failed"
    ELSE IF phase = "ProtocolVersion" THEN "Security"
    ELSE IF phase = "Security" THEN "Auth"
    ELSE IF phase = "Auth" THEN (IF skip THEN "Init" ELSE "SecurityResult")
    ELSE IF phase = "SecurityResult" THEN "Init"
    ELSE "Ready"

\* history record of an operation that started reading at offset p0
LastOp(op, p0) ==
    [op |-> op, from |-> p0, first |-> 0, colors |-> <<>>, before |-> <<>>,
     status |-> ""]

\* the Write calls of a phase, the last of them failing when ~wok
Writes(phase, out, wok) ==
    [i \in 1..Len(out) |->
        [by |-> phase, data |-> out[i], ok |-> (i < Len(out)) \/ wok]]

\* the bookkeeping every phase ends with
EndPhase(phase, e, s, p0, p1, out, wok, skip) ==
    /\ inp' = s
    /\ rpos' = p1
    /\ closed' = (closed \/ e = "EOF")
    /\ wr' = wr \o Writes(phase, out, wok)
    /\ err' = e
    /\ phases' = Append(phases, [name |-> phase, err |-> e, from |-> p0, to |-> p1])
    /\ pc' = AfterPhase(phase, e, skip)
    /\ last' = LastOp(phase, p0)
    /\ UNCHANGED <<config, encodingMap, sent, got>>

hsProtocolVersion(chunk, wok) ==
    /\ pc = "ProtocolVersion"
    /\ LET s == inp \o chunk
           p == rpos
       IN IF ~Has(s, p, 12)
          THEN /\ EndPhase("ProtocolVersion", "EOF", s, p, Len(s), <<>>, wok, FALSE)
               /\ UNCHANGED protocolVersion
          ELSE LET pvBuf == Bytes(s, p, 12)
                   e == VersionError(pvBuf)
               IN IF e # ""
                  THEN /\ EndPhase("ProtocolVersion", e, s, p, p + 12, <<>>, wok, FALSE)
                       /\ UNCHANGED protocolVersion
                  ELSE LET v == NegotiatedVersion(Sscanf(pvBuf).minor) IN
                       /\ protocolVersion' = v
                       /\ EndPhase("ProtocolVersion", IF wok THEN "" ELSE "WriteError",
                                   s, p, p + 12, <<v>>, wok, FALSE)
    /\ UNCHANGED <<securityType, pixelFormat, FrameBufferWidth, FrameBufferHeight,
                   DesktopName>>

hsSecurity(chunk, wok) ==
    /\ pc = "Security"
    /\ LET s == inp \o chunk
           r == hsSecurityChoose(s, rpos, protocolVersion, config.Auth)
           e == IF r.err = "" /\ r.out # <<>> /\ ~wok THEN "WriteError" ELSE r.err
       IN /\ securityType' = IF e = "" THEN r.auth ELSE securityType
          /\ EndPhase("Security", e, s, rpos, r.pos, r.out, wok, FALSE)
    /\ UNCHANGED <<protocolVersion, pixelFormat, FrameBufferWidth, FrameBufferHeight,
                   DesktopName>>

\* auth.Handshake(c) for the chosen scheme: nothing for None; for VNC the
\* 16-byte challenge is read and the 16-byte DES response (crypted) written
AuthHandshake(chunk, crypted, wok) ==
    /\ pc = "Auth"
    /\ LET s == inp \o chunk
           skip == SkipSecurityResult(securityType, protocolVersion)
       IN IF securityType = NoneSecType
          THEN EndPhase("Auth", "", s, rpos, rpos, <<>>, wok, skip)
          ELSE IF ~Has(s, rpos, 16)
          THEN EndPhase("Auth", "EOF", s, rpos, Len(s), <<>>, wok, skip)
          ELSE EndPhase("Auth", IF wok THEN "" ELSE "WriteError", s, rpos, rpos + 16,
                        <<crypted>>, wok, skip)
    /\ UNCHANGED <<protocolVersion, securityType, pixelFormat, FrameBufferWidth,
                   FrameBufferHeight, DesktopName>>

hsSecurityResult(chunk) ==
    /\ pc = "SecurityResult"
    /\ LET s == inp \o chunk
           r == hsSecurityResultAt(s, rpos, protocolVersion)
       IN EndPhase("SecurityResult", r.err, s, rpos, r.pos, <<>>, TRUE, FALSE)
    /\ UNCHANGED <<protocolVersion, securityType, pixelFormat, FrameBufferWidth,
                   FrameBufferHeight, DesktopName>>

hsInit(chunk, wok) ==
    /\ pc = "Init"
    /\ LET s == inp \o chunk
           out == << <<SharedFlag(config.Exclusive)>> >>
       IN IF ~wok
          THEN /\ EndPhase("Init", "WriteError", inp, rpos, rpos, out, wok, FALSE)
               /\ UNCHANGED <<FrameBufferWidth, FrameBufferHeight, pixelFormat,
                              DesktopName>>
          ELSE LET r == hsInitRead(s, rpos) IN
               /\ FrameBufferWidth' = IF r.n >= 1 THEN r.w ELSE FrameBufferWidth
               /\ FrameBufferHeight' = IF r.n >= 2 THEN r.h ELSE FrameBufferHeight
               /\ pixelFormat' = IF r.n >= 3 THEN r.pf ELSE pixelFormat
               /\ DesktopName' = IF r.n >= 4 THEN r.name ELSE DesktopName
               /\ EndPhase("Init", r.err, s, rpos, r.pos, out, wok, FALSE)
    /\ UNCHANGED <<protocolVersion, securityType>>

(***************************************************************************)
(* The server side of the handshake: what it may put on the stream at each *)
(* phase, complete or cut short by closing the connection.                 *)
(***************************************************************************)
SeqsUpTo(S, n) == UNION {[1..k -> S] : k \in 0..n}

D3(n) == <<48 + ((n \div 100) % 10), 48 + ((n \div 10) % 10), 48 + (n % 10)>>

\* the token "RFB MMM.mmm\n"
FormatVersion(major, minor) ==
    <<82, 70, 66, 32>> \o D3(major) \o <<46>> \o D3(minor) \o <<10>>

ServerMajors == {2, 3, 4}

ServerMinors == {2, 3, 6, 7, 8, 889}

VersionChunks ==
    {FormatVersion(a, b) : a \in ServerMajors, b \in ServerMinors}
        \cup {<<82, 70, 66>>, <<82, 70, 66, 32, 48, 48, 51, 120, 48, 48, 56, 10>>}

Reasons == SeqsUpTo({88}, MaxReasonLen)

ReasonChunk(r) == U32(Len(r)) \o r

\* a reason string cut short: half a length, or a length with a byte missing
ShortReasons == {<<0, 0>>, U32(MaxReasonLen + 1) \o [i \in 1..MaxReasonLen |-> 88]}

ServerSecTypes == {NoneSecType, VNCSecType, 16}

SecurityChunks(version) ==
    IF StrGeq(version, ProtocolVersion3_7)
    THEN {<<Len(l)>> \o l : l \in SeqsUpTo(ServerSecTypes, MaxSecTypes) \ {<<>>}}
            \cup {<<0>> \o ReasonChunk(r) : r \in Reasons}
            \cup {<<0>> \o r : r \in ShortReasons}
            \cup {<<>>, <<2, NoneSecType>>}
    ELSE {U32(t) : t \in ServerSecTypes \cup {257}}
            \cup {U32(0) \o ReasonChunk(r) : r \in Reasons}
            \cup {U32(0), <<0, 0>>}

Challenge == [i \in 1..16 |-> i - 1]

AuthChunks(secType) ==
    IF secType = VNCSecType THEN {Challenge, SubSeq(Challenge, 1, 8)} ELSE {<<>>}

\* crypto/des is not modelled: the response is some 16 bytes
CipherTexts == {[i \in 1..16 |-> (17 * i) % 256], [i \in 1..16 |-> 255 - i]}

SecurityResultChunks ==
    {U32(0), <<0, 0>>}
        \cup {U32(x) \o ReasonChunk(r) : x \in {1, 2, 3}, r \in Reasons}
        \cup {U32(x) \o r : x \in {1, 3}, r \in ShortReasons \cup {<<>>}}

PF32 ==
    [BPP |-> 32, Depth |-> 24, BigEndian |-> 1, TrueColor |-> 1, RedMax |-> 255,
     GreenMax |-> 255, BlueMax |-> 255, RedShift |-> 16, GreenShift |-> 8,
     BlueShift |-> 0]

PF8 ==
    [BPP |-> 8, Depth |-> 8, BigEndian |-> 0, TrueColor |-> 0, RedMax |-> 7,
     GreenMax |-> 7, BlueMax |-> 3, RedShift |-> 0, GreenShift |-> 3,
     BlueShift |-> 6]

ServerPixelFormats == {PF32, PF8}

TestName == <<84, 101, 115, 116>>

ServerInitBytes(w, h, rpf, name) ==
    U16(w) \o U16(h) \o RFBPixelFormatBytes(rpf) \o U32(Len(name)) \o name

InitChunks ==
    {ServerInitBytes(d[1], d[2], f, nm) :
        d \in {<<640, 480>>, <<1, 2>>}, f \in ServerPixelFormats,
        nm \in {TestName} \cup SeqsUpTo({65}, MaxNameLen)}
        \cup {SubSeq(ServerInitBytes(640, 480, PF32, TestName), 1, n) :
                n \in {0, 1, 3, 10, 22, 27}}

\* the configurations NewClientConn leaves behind (a nil Auth became <<None>>)
\* the decoders NewClientConn registers, by message id
RequiredMessages ==
    [i \in 0..3 |-> <<"FramebufferUpdate", "SetColorMapEntries", "Bell",
                      "ServerCutText">>[i + 1]]

Configs ==
    [Auth : {<<>>, <<NoneSecType>>, <<VNCSecType>>, <<NoneSecType, VNCSecType>>,
             <<VNCSecType, NoneSecType>>},
     Exclusive : BOOLEAN,
     ServerMessages : {RequiredMessages}]

\* the connection as NewClientConn returns it
InitHS ==
    /\ pc = "ProtocolVersion"
    /\ inp = <<>>
    /\ rpos = 0
    /\ closed = FALSE
    /\ wr = <<>>
    /\ err = ""
    /\ phases = <<>>
    /\ config \in Configs
    /\ protocolVersion = <<>>
    /\ securityType = InvalidSecType
    /\ pixelFormat = NilPixelFormat
    /\ encodingMap = {RawEncType}
    /\ FrameBufferWidth = 0
    /\ FrameBufferHeight = 0
    /\ DesktopName = <<>>
    /\ sent = <<>>
    /\ got = <<>>
    /\ last = LastOp("NewClientConn", 0)

NextHS ==
    \/ \E chunk \in VersionChunks, wok \in BOOLEAN : hsProtocolVersion(chunk, wok)
    \/ \E chunk \in SecurityChunks(protocolVersion), wok \in BOOLEAN :
          hsSecurity(chunk, wok)
    \/ \E chunk \in AuthChunks(securityType), crypted \in CipherTexts, wok \in BOOLEAN :
          AuthHandshake(chunk, crypted, wok)
    \/ \E chunk \in SecurityResultChunks : hsSecurityResult(chunk)
    \/ \E chunk \in InitChunks, wok \in BOOLEAN : hsInit(chunk, wok)

SpecHS == InitHS /\ [][NextHS]_vars

(***************************************************************************)
(* Properties of the handshake (checked under SpecHS).                     *)
(***************************************************************************)
WritesBy(phase) == SelectSeq(wr, LAMBDA x : x.by = phase)

PhaseNames == [i \in 1..Len(phases) |-> phases[i].name]

IsPrefix(a, b) == Len(a) <= Len(b) /\ a = SubSeq(b, 1, Len(a))

\* the server's first 12 bytes have the form "RFB MMM.mmm\n"
IsRFBToken(tok) ==
    /\ Len(tok) = 12
    /\ SubSeq(tok, 1, 4) = <<82, 70, 66, 32>>
    /\ \A i \in {5, 6, 7, 9, 10, 11} : tok[i] \in 48..57
    /\ tok[8] = 46
    /\ tok[12] = 10

TokNum(tok, i) == (tok[i] - 48) * 100 + (tok[i + 1] - 48) * 10 + (tok[i + 2] - 48)

\* C1: once the version phase has run on a server token "RFB MMM.mmm\n": if
\* major # 3 or minor < 3 it failed with UnsupportedVersion and nothing was
\* written; otherwise exactly one 12-byte token was written and recorded as the
\* negotiated version: 3.3 for 3 <= minor < 7, 3.7 for minor = 7, 3.8 for
\* minor >= 8.
C1_VersionNegotiation ==
    (Len(phases) >= 1 /\ Len(inp) >= 12 /\ IsRFBToken(SubSeq(inp, 1, 12))) =>
        LET tok == SubSeq(inp, 1, 12)
            major == TokNum(tok, 5)
            minor == TokNum(tok, 9)
            w == WritesBy("ProtocolVersion")
            expected == IF minor < 7 THEN <<82, 70, 66, 32, 48, 48, 51, 46, 48, 48, 51, 10>>
                        ELSE IF minor = 7
                        THEN <<82, 70, 66, 32, 48, 48, 51, 46, 48, 48, 55, 10>>
                        ELSE <<82, 70, 66, 32, 48, 48, 51, 46, 48, 48, 56, 10>>
        IN IF major # 3 \/ minor < 3
           THEN phases[1].err = "UnsupportedVersion" /\ wr = <<>> /\ pc = "Failed"
           ELSE /\ Len(w) = 1
                /\ w[1].data = expected
                /\ Len(w[1].data) = 12
                /\ protocolVersion = expected
                /\ phases[1].err \in {"", "WriteError"}

\* C1 witness: the server said 003.889 and the client answered 003.008
C1_Witness ==
    /\ pc = "Security"
    /\ SubSeq(inp, 1, 12) = FormatVersion(3, 889)
    /\ wr = <<[by |-> "ProtocolVersion", data |-> ProtocolVersion3_8, ok |-> TRUE]>>
    /\ protocolVersion = ProtocolVersion3_8

PhaseOrder == <<"ProtocolVersion", "Security", "Auth", "SecurityResult", "Init">>

PhaseOrderSkipped == <<"ProtocolVersion", "Security", "Auth", "Init">>

\* C2: the phases run are a prefix of ProtocolVersion, Security (with the
\* scheme's handshake), SecurityResult (unless skipped), Init; every phase but
\* the last one run succeeded; the handshake is Ready exactly when Init ran and
\* succeeded and Failed exactly when the last phase run failed, after which
\* nothing more was read or written; the shared-flag byte is written only after
\* the version and security phases succeeded.
C2_PhaseOrdering ==
    /\ IsPrefix(PhaseNames, PhaseOrder) \/ IsPrefix(PhaseNames, PhaseOrderSkipped)
    /\ \A i \in 1..(Len(phases) - 1) : phases[i].err = ""
    /\ pc = "Ready" <=>
          (phases # <<>> /\ phases[Len(phases)].name = "Init"
              /\ phases[Len(phases)].err = "")
    /\ pc = "Failed" <=> (phases # <<>> /\ phases[Len(phases)].err # "")
    /\ pc = "Ready" => err = ""
    /\ pc = "Failed" => err # ""
    /\ phases # <<>> => rpos = phases[Len(phases)].to
    /\ \A k \in 1..Len(wr) :
          /\ \E i \in 1..Len(phases) : phases[i].name = wr[k].by
          /\ \A j \in 1..(k - 1) : wr[j].ok
          /\ wr[k].by = "Init" =>
                /\ Len(phases) >= 4
                /\ \A i \in 1..(Len(phases) - 1) : phases[i].err = ""
                /\ {"ProtocolVersion", "Security", "Auth"} \subseteq
                      {phases[i].name : i \in 1..(Len(phases) - 1)}

\* C2 witness: a handshake that failed in SecurityResult, after three phases
\* that succeeded, and one that went through all five phases
C2_Witness ==
    /\ pc = "Failed"
    /\ PhaseNames = <<"ProtocolVersion", "Security", "Auth", "SecurityResult">>
    /\ Len(wr) = 3

Range(f) == {f[i] : i \in DOMAIN f}

\* C3: on a negotiated version >= 3.7 with a non-empty server list, the scheme
\* chosen is the first entry of the client's Auth list whose type the server
\* lists, and exactly one byte, that type, is written before the scheme's
\* handshake; with no such entry the phase fails with NoSuitableAuth, nothing is
\* written and no scheme handshake runs.
C3_SecurityTypeSelection ==
    (/\ Len(phases) >= 2
     /\ protocolVersion \in {ProtocolVersion3_7, ProtocolVersion3_8}
     /\ Has(inp, phases[2].from, 1)
     /\ inp[phases[2].from + 1] > 0
     /\ Has(inp, phases[2].from + 1, inp[phases[2].from + 1])) =>
        LET p == phases[2].from
            server == Range(Bytes(inp, p + 1, inp[p + 1]))
            client == config.Auth
            w == WritesBy("Security")
        IN IF \E i \in DOMAIN client : client[i] \in server
           THEN \E i \in DOMAIN client :
                   /\ client[i] \in server
                   /\ \A k \in 1..(i - 1) : client[k] \notin server
                   /\ Len(w) = 1
                   /\ w[1].data = <<client[i]>>
                   /\ wr[2] = w[1]
                   /\ w[1].ok => securityType = client[i] /\ phases[2].err = ""
                   /\ ~w[1].ok => phases[2].err = "WriteError"
           ELSE /\ phases[2].err = "NoSuitableAuth"
                /\ w = <<>>
                /\ Len(phases) = 2
                /\ pc = "Failed"

\* C3 witness: the client prefers VNC, the server lists None first; VNC is chosen
C3_Witness ==
    /\ pc = "Auth"
    /\ config.Auth = <<VNCSecType, NoneSecType>>
    /\ Len(inp) = 15
    /\ Bytes(inp, 12, 3) = <<2, NoneSecType, VNCSecType>>
    /\ securityType = VNCSecType
    /\ wr[2].data = <<VNCSecType>>

\* C4: after the scheme's handshake succeeded the SecurityResult is read exactly
\* when not (scheme None and version below 3.8); skipped, the handshake goes on
\* to Init; read, the security phase succeeds exactly when the u32 is 0, and any
\* other value fails the handshake before Init starts.
C4_SecurityResult ==
    (Len(phases) >= 3 /\ phases[3].err = "") =>
        LET skipped == securityType = NoneSecType
                          /\ protocolVersion \in {ProtocolVersion3_3, ProtocolVersion3_7}
        IN /\ Len(phases) = 3 => pc = (IF skipped THEN "Init" ELSE "SecurityResult")
           /\ Len(phases) >= 4 =>
                 /\ phases[4].name = (IF skipped THEN "Init" ELSE "SecurityResult")
                 /\ phases[4].from = phases[3].to
                 /\ (~skipped /\ Has(inp, phases[4].from, 4)) =>
                       LET v == inp[phases[4].from + 1] * 16777216
                                   + inp[phases[4].from + 2] * 65536
                                   + inp[phases[4].from + 3] * 256
                                   + inp[phases[4].from + 4]
                       IN /\ phases[4].err = "" <=> v = 0
                          /\ v # 0 => pc = "Failed" /\ Len(phases) = 4
                          /\ v = 0 /\ Len(phases) = 4 => pc = "Init"

\* C4 witness: VNC below 3.8, SecurityResult 3: the handshake failed before Init
C4_Witness ==
    /\ Len(phases) = 4
    /\ securityType = VNCSecType
    /\ protocolVersion = ProtocolVersion3_7
    /\ Has(inp, phases[4].from, 4)
    /\ Bytes(inp, phases[4].from, 4) = <<0, 0, 0, 3>>
    /\ pc = "Failed"

\* C4 second case reached as well: None below 3.8 goes straight to Init
C4_SkippedReached ==
    /\ pc = "Init"
    /\ Len(phases) = 3
    /\ securityType = NoneSecType
    /\ protocolVersion = ProtocolVersion3_3

\* where the reason string that starts at offset p ends, as far as it arrived
ReasonEnd(p) ==
    IF ~Has(inp, p, 4) THEN Len(inp)
    ELSE LET n == inp[p + 1] * 16777216 + inp[p + 2] * 65536 + inp[p + 3] * 256
                     + inp[p + 4]
         IN IF Has(inp, p + 4, n) THEN p + 4 + n ELSE Len(inp)

\* case (a): no security types on version >= 3.7
C5a_NoSecurityTypes ==
    (/\ Len(phases) >= 2
     /\ protocolVersion \in {ProtocolVersion3_7, ProtocolVersion3_8}
     /\ Has(inp, phases[2].from, 1)
     /\ inp[phases[2].from + 1] = 0) =>
        (pc = "Failed" /\ rpos = ReasonEnd(phases[2].from + 1))

\* case (b): security type 0 on version 3.3
C5b_SecurityTypeZero ==
    (/\ Len(phases) >= 2
     /\ protocolVersion = ProtocolVersion3_3
     /\ Has(inp, phases[2].from, 4)
     /\ Bytes(inp, phases[2].from, 4) = <<0, 0, 0, 0>>) =>
        (pc = "Failed" /\ rpos = ReasonEnd(phases[2].from + 4))

\* case (c): a non-zero SecurityResult; the reason is read on 3.8 only
C5c_SecurityResult ==
    (/\ Len(phases) >= 4
     /\ phases[4].name = "SecurityResult"
     /\ Has(inp, phases[4].from, 4)
     /\ Bytes(inp, phases[4].from, 4) # <<0, 0, 0, 0>>) =>
        /\ pc = "Failed"
        /\ rpos = IF protocolVersion = ProtocolVersion3_8
                  THEN ReasonEnd(phases[4].from + 4)
                  ELSE phases[4].from + 4

\* C5: whenever the server signals failure in the security phase - (a) a count
\* of 0 security types on version >= 3.7, (b) security type 0 on version 3.3,
\* (c) a non-zero SecurityResult on version >= 3.8 - the client has read the
\* reason string that follows before it fails; on a non-zero SecurityResult
\* below 3.8 it reads no reason; and in each of these cases the handshake fails.
C5_FailureReasonRead ==
    C5a_NoSecurityTypes /\ C5b_SecurityTypeZero /\ C5c_SecurityResult

\* C6: Init writes exactly one byte, 0 for an exclusive connection and 1
\* otherwise, before it reads anything; after a successful handshake the
\* connection's width, height, pixel format and name are those of the
\* ServerInit the server sent.
C6_Init ==
    /\ Len(WritesBy("Init")) <= 1
    /\ (\E i \in 1..Len(phases) : phases[i].name = "Init") =>
          LET w == WritesBy("Init")
              ph == phases[Len(phases)]
          IN /\ Len(w) = 1
             /\ w[1].data = <<IF config.Exclusive THEN 0 ELSE 1>>
             /\ ~w[1].ok => ph.to = ph.from /\ pc = "Failed"
    /\ pc = "Ready" =>
          \E sw \in {640, 1}, sh \in {480, 2}, f \in ServerPixelFormats,
             nm \in {TestName} \cup SeqsUpTo({65}, MaxNameLen) :
                /\ SubSeq(inp, phases[Len(phases)].from + 1, Len(inp))
                      = ServerInitBytes(sw, sh, f, nm)
                /\ FrameBufferWidth = sw
                /\ FrameBufferHeight = sh
                /\ pixelFormat.rpf = f
                /\ ~pixelFormat.nil
                /\ DesktopName = nm
                /\ rpos = Len(inp)

\* C6 witness: scenario 1 of the specification (3.8, None, 640x480, "Test"),
\* on an exclusive connection
C6_Witness ==
    /\ pc = "Ready"
    /\ protocolVersion = ProtocolVersion3_8
    /\ securityType = NoneSecType
    /\ config.Exclusive
    /\ wr[Len(wr)] = [by |-> "Init", data |-> <<0>>, ok |-> TRUE]
    /\ FrameBufferWidth = 640
    /\ FrameBufferHeight = 480
    /\ DesktopName = TestName
    /\ pixelFormat.rpf = PF32

(***************************************************************************)
(* Pixel conversion: PixelFormat.ReadPixels and pixelToRGB.                *)
(***************************************************************************)
RECURSIVE BitAnd(_, _)
BitAnd(a, b) ==
    IF a = 0 \/ b = 0 THEN 0
    ELSE (a % 2) * (b % 2) + 2 * BitAnd(a \div 2, b \div 2)

\* uint8(float64(num)*255/float64(max) + 0.5)
scaleToUint8(num, max) == ((num * 510 + max) \div (2 * max)) % 256

\* the pixel value assembled from the ByPP bytes of buffer
PixelValue(pf, buffer) ==
    IF pf.ByPP = 1 THEN buffer[1]
    ELSE IF pf.ByPP = 2
    THEN (IF pf.ByteOrder = "BigEndian" THEN buffer[1] * 256 + buffer[2]
          ELSE buffer[2] * 256 + buffer[1])
    ELSE IF pf.ByPP = 4
    THEN (IF pf.ByteOrder = "BigEndian"
          THEN buffer[1] * 16777216 + buffer[2] * 65536 + buffer[3] * 256 + buffer[4]
          ELSE buffer[4] * 16777216 + buffer[3] * 65536 + buffer[2] * 256 + buffer[1])
    ELSE 0

\* the second half of pixelToRGB: the channels of the assembled pixel value;
\* indexing the colour map out of range panics
PixelRGB(pf, pixel) ==
    IF pf.rpf.TrueColor # 0
    THEN [panic |-> FALSE,
          rgb |-> <<scaleToUint8(BitAnd(pixel \div (2 ^ pf.rpf.RedShift), pf.rpf.RedMax),
                                 pf.rpf.RedMax),
                    scaleToUint8(BitAnd(pixel \div (2 ^ pf.rpf.GreenShift), pf.rpf.GreenMax),
                                 pf.rpf.GreenMax),
                    scaleToUint8(BitAnd(pixel \div (2 ^ pf.rpf.BlueShift), pf.rpf.BlueMax),
                                 pf.rpf.BlueMax)>>]
    ELSE IF pixel >= Len(pf.ColorMap)
    THEN [panic |-> TRUE, rgb |-> <<>>]
    ELSE [panic |-> FALSE,
          rgb |-> <<scaleToUint8(pf.ColorMap[pixel + 1].R, 65535),
                    scaleToUint8(pf.ColorMap[pixel + 1].G, 65535),
                    scaleToUint8(pf.ColorMap[pixel + 1].B, 65535)>>]

\* pixelToRGB: [panic, rgb]
pixelToRGB(pf, buffer) == PixelRGB(pf, PixelValue(pf, buffer))

\* ReadPixels: the pixel c is followed by the rest of the buffer
ReadPixelsJoin(c, rest) ==
    IF rest.err # "" THEN rest
    ELSE [err |-> "", pos |-> rest.pos, rgba |-> c.rgb \o <<255>> \o rest.rgba]

\* ReadPixels(r, numPixels) at offset p of s: [err, pos, rgba]
RECURSIVE ReadPixels(_, _, _, _)
ReadPixelsStep(c, pf, s, p, numPixels) ==
    IF c.panic THEN [err |-> "panic", pos |-> p + pf.ByPP, rgba |-> <<>>]
    ELSE ReadPixelsJoin(c, ReadPixels(pf, s, p + pf.ByPP, numPixels - 1))

ReadPixels(pf, s, p, numPixels) ==
    IF numPixels = 0 THEN [err |-> "", pos |-> p, rgba |-> <<>>]
    ELSE IF ~Has(s, p, pf.ByPP) THEN [err |-> "EOF", pos |-> Len(s), rgba |-> <<>>]
    ELSE ReadPixelsStep(pixelToRGB(pf, Bytes(s, p, pf.ByPP)), pf, s, p, numPixels)

\* ColorMap.UpdateColorMap: the error return is never taken (copy into a slice
\* of n elements copies n); slicing cm[first : first+n] beyond cap(cm) panics
UpdateColorMapOf(cm, firstColor, colors) ==
    IF firstColor + Len(colors) > Len(cm)
    THEN [status |-> "panic", cm |-> cm]
    ELSE [status |-> "ok",
          cm |-> [i \in 1..Len(cm) |->
                    IF i > firstColor /\ i <= firstColor + Len(colors)
                    THEN colors[i - firstColor] ELSE cm[i]]]

(***************************************************************************)
(* Server messages and their decoders.                                     *)
(***************************************************************************)
FramebufferUpdateMID == 0

SetColorMapEntriesMID == 1

BellMID == 2

ServerCutTextMID == 3

\* a message value; the fields a kind does not have are empty
Msg(kind) ==
    [kind |-> kind, Text |-> <<>>, FirstColor |-> 0, Colors |-> <<>>,
     Rectangles |-> <<>>]

NoMsg == Msg("nil")

\* a rectangle; data is the pixel payload (wire bytes when sent, RGBA when decoded)
Rect(x, y, w, h, encType, data, sx, sy) ==
    [X |-> x, Y |-> y, Width |-> w, Height |-> h, EncType |-> encType,
     data |-> data, SX |-> sx, SY |-> sy]

\* an int32 read big-endian (two's complement)
BEI32(s, p) ==
    IF s[p + 1] < 128 THEN BEU32(s, p)
    ELSE -1 - ((255 - s[p + 1]) * 16777216 + (255 - s[p + 2]) * 65536
                  + (255 - s[p + 3]) * 256 + (255 - s[p + 4]))

\* an int32 written big-endian (two's complement)
I32(n) ==
    IF n >= 0 THEN U32(n)
    ELSE LET u == U32(-1 - n) IN <<255 - u[1], 255 - u[2], 255 - u[3], 255 - u[4]>>

\* RawEncoding.Read: the result of ReadPixels becomes the rectangle's data
RawRead(r) == [err |-> r.err, pos |-> r.pos, data |-> r.rgba, sx |-> 0, sy |-> 0]

\* CopyRectEncoding.Read: two uint16, the source position
CopyRectRead(s, p) ==
    IF ~Has(s, p, 4)
    THEN [err |-> "EOF", pos |-> Len(s), data |-> <<>>, sx |-> 0, sy |-> 0]
    ELSE [err |-> "", pos |-> p + 4, data |-> <<>>,
          sx |-> BEU16(s, p), sy |-> BEU16(s, p + 2)]

\* DesktopSizePseudoEncoding.Read: no payload
DesktopSizeRead(s, p) == [err |-> "", pos |-> p, data |-> <<>>, sx |-> 0, sy |-> 0]

\* what every Read returns when the stream ends or a pixel cannot be decoded
ReadFailed(e, pos) == [err |-> e, pos |-> pos, data |-> <<>>, sx |-> 0, sy |-> 0]

\* CursorPseudoEncoding.Read.  The mask has (rect.Width+7)/8*rect.Height bytes,
\* computed in uint16.
MaskLen(w, h) == ((((w + 7) % 65536) \div 8) * h) % 65536

\* the values pIdx takes in the loop over the mask: for row i and every eighth
\* column j the byte mask[j/8] is tested bit by bit, and pIdx = j*4 +
\* i*rectStride (uint16) for every bit that is 0
CursorZeroed(mask, w, h) ==
    {(ij[2] * 4 + ij[1] * ((4 * w) % 65536)) % 65536 :
        ij \in {c \in (0..(h - 1)) \X (0..(w - 1)) :
                  /\ c[2] % 8 = 0
                  /\ \E k \in 0..7 : (mask[(c[2] \div 8) + 1] \div (2 ^ k)) % 2 = 0}}

\* rgbaBuffer[pIdx .. pIdx+3] = 0 for each of them
CursorMasked(rgba, zeroed) ==
    [n \in 1..Len(rgba) |->
        IF \E z \in zeroed : n - 1 \in z..(z + 3) THEN 0 ELSE rgba[n]]

CursorMask(r, s, w, h) ==
    IF r.err # "" THEN ReadFailed(r.err, r.pos)
    ELSE IF ~Has(s, r.pos, MaskLen(w, h)) THEN ReadFailed("EOF", Len(s))
    ELSE IF \E z \in CursorZeroed(Bytes(s, r.pos, MaskLen(w, h)), w, h) :
               z + 3 >= Len(r.rgba)
    THEN ReadFailed("panic", r.pos + MaskLen(w, h))
    ELSE [err |-> "", pos |-> r.pos + MaskLen(w, h),
          data |-> CursorMasked(r.rgba,
                                CursorZeroed(Bytes(s, r.pos, MaskLen(w, h)), w, h)),
          sx |-> 0, sy |-> 0]

CursorRead(pf, s, p, w, h) == CursorMask(ReadPixels(pf, s, p, h * w), s, w, h)

(***************************************************************************)
(* HextileEncoding.Read.  The state of the loops is a record: the error    *)
(* and the stream position, img.Pix, bg and fg, the variables tw and th,   *)
(* and the colour uImg of the subrectangle at hand.  cnt counts the writes *)
(* of each pixel, tiles lists the tiles in the order of their subencoding  *)
(* bytes, with bg and fg as the tile found them, and subs lists the        *)
(* subrectangles drawn; none of the three is part of the program's state.  *)
(***************************************************************************)
HextileStart(p, w, h) ==
    [err |-> "", pos |-> p, img |-> [n \in 1..(4 * w * h) |-> 0],
     cnt |-> [n \in 1..(w * h) |-> 0], bg |-> <<0, 0, 0, 255>>,
     fg |-> <<0, 0, 0, 255>>, uImg |-> <<0, 0, 0, 255>>, tw |-> 16, th |-> 16,
     tiles |-> <<>>, subs |-> <<>>]

HextileFailed(st, e, pos) == [st EXCEPT !.err = e, !.pos = pos]

\* pixel n (from 0, row by row) of an image w wide lies in the rectangle
InRect(n, w, x0, y0, x1, y1) ==
    /\ x0 <= (n % w) /\ (n % w) < x1
    /\ y0 <= (n \div w) /\ (n \div w) < y1

\* draw.Draw(img, dstRect, uniform, image.ZP, draw.Src), clipped to img
DrawUniform(st, w, x0, y0, x1, y1, c) ==
    [st EXCEPT
        !.img = [n \in DOMAIN st.img |->
                    IF InRect((n - 1) \div 4, w, x0, y0, x1, y1)
                    THEN c[((n - 1) % 4) + 1] ELSE st.img[n]],
        !.cnt = [n \in DOMAIN st.cnt |->
                    IF InRect(n - 1, w, x0, y0, x1, y1)
                    THEN st.cnt[n] + 1 ELSE st.cnt[n]]]

\* draw.Draw(img, dstRect, newRGBAImage(rgba, tw, th), image.ZP, draw.Src)
DrawRaw(st, w, tx, ty, rgba) ==
    [st EXCEPT
        !.img = [n \in DOMAIN st.img |->
                    IF InRect((n - 1) \div 4, w, tx, ty, tx + st.tw, ty + st.th)
                    THEN rgba[4 * ((((((n - 1) \div 4) \div w) - ty) * st.tw)
                                   + ((((n - 1) \div 4) % w) - tx))
                              + ((n - 1) % 4) + 1]
                    ELSE st.img[n]],
        !.cnt = [n \in DOMAIN st.cnt |->
                    IF InRect(n - 1, w, tx, ty, tx + st.tw, ty + st.th)
                    THEN st.cnt[n] + 1 ELSE st.cnt[n]]]

TileRaw(st, r, w, tx, ty) ==
    IF r.err # "" THEN HextileFailed(st, r.err, r.pos)
    ELSE [DrawRaw(st, w, tx, ty, r.rgba) EXCEPT !.pos = r.pos]

\* readPixelToUniform into bg, fg or uImg
ReadUniform(st, r, field) ==
    IF r.err # "" THEN HextileFailed(st, r.err, r.pos)
    ELSE [st EXCEPT ![field] = r.rgba, !.pos = r.pos]

\* a tile that specifies no background starts from black again
Mut_TileBg(pf, s, sub, st) ==
    IF (sub \div 2) % 2 = 0 THEN [st EXCEPT !.bg = <<0, 0, 0, 255>>]
    ELSE ReadUniform(st, ReadPixels(pf, s, st.pos, 1), "bg")

TileBg(pf, s, sub, st) ==
    IF (sub \div 2) % 2 = 0 THEN st
    ELSE ReadUniform(st, ReadPixels(pf, s, st.pos, 1), "bg")

TileFg(pf, s, sub, st) ==
    IF st.err # "" \/ (sub \div 4) % 2 = 0 THEN st
    ELSE ReadUniform(st, ReadPixels(pf, s, st.pos, 1), "fg")

\* the background is not drawn
Mut_TileFill(st, w, tx, ty) == st

TileFill(st, w, tx, ty) ==
    IF st.err # "" THEN st
    ELSE DrawUniform(st, w, tx, ty, tx + st.tw, ty + st.th, st.bg)

SubrectColor(pf, s, colored, st) ==
    IF colored THEN ReadUniform(st, ReadPixels(pf, s, st.pos, 1), "uImg")
    ELSE [st EXCEPT !.uImg = st.fg]

SubrectBox(s, st, w, tx, ty) ==
    IF st.err # "" THEN st
    ELSE IF ~Has(s, st.pos, 2) THEN HextileFailed(st, "EOF", Len(s))
    ELSE [DrawUniform(st, w, tx + (s[st.pos + 1] \div 16), ty + (s[st.pos + 1] % 16),
                      tx + (s[st.pos + 1] \div 16) + (s[st.pos + 2] \div 16) + 1,
                      ty + (s[st.pos + 1] % 16) + (s[st.pos + 2] % 16) + 1, st.uImg)
             EXCEPT !.pos = st.pos + 2,
                    !.subs = Append(st.subs,
                                    [tile |-> Len(st.tiles), at |-> st.pos,
                                     c |-> st.uImg, fg |-> st.fg])]

RECURSIVE Subrects(_, _, _, _, _, _, _, _)
Subrects(pf, s, colored, numSubRect, st, w, tx, ty) ==
    IF st.err # "" \/ numSubRect = 0 THEN st
    ELSE Subrects(pf, s, colored, numSubRect - 1,
                  SubrectBox(s, SubrectColor(pf, s, colored, st), w, tx, ty),
                  w, tx, ty)

TileSubrects(pf, s, sub, st, w, tx, ty) ==
    IF st.err # "" \/ (sub \div 8) % 2 = 0 THEN st
    ELSE IF ~Has(s, st.pos, 1) THEN HextileFailed(st, "EOF", Len(s))
    ELSE Subrects(pf, s, (sub \div 16) % 2 = 1, s[st.pos + 1],
                  [st EXCEPT !.pos = st.pos + 1], w, tx, ty)

\* the tile after its subencoding byte
TileBody(pf, s, w, tx, ty, sub, st) ==
    IF sub % 2 = 1
    THEN TileRaw(st, ReadPixels(pf, s, st.pos, st.tw * st.th), w, tx, ty)
    ELSE TileSubrects(pf, s, sub,
                      TileFill(TileFg(pf, s, sub, TileBg(pf, s, sub, st)), w, tx, ty),
                      w, tx, ty)

Tile(pf, s, w, tx, ty, st) ==
    IF ~Has(s, st.pos, 1) THEN HextileFailed(st, "EOF", Len(s))
    ELSE TileBody(pf, s, w, tx, ty, s[st.pos + 1],
                  [st EXCEPT !.pos = st.pos + 1,
                             !.tiles = Append(st.tiles,
                                              [tx |-> tx, ty |-> ty, tw |-> st.tw,
                                               th |-> st.th, at |-> st.pos,
                                               bg |-> st.bg, fg |-> st.fg])])

\* if tx == txLast { tw = twLast }
ColWidth(st, w, tx) ==
    IF tx = w - (w % 16) THEN [st EXCEPT !.tw = w % 16] ELSE st

RECURSIVE HextileCols(_, _, _, _, _, _)
HextileCols(pf, s, w, tx, ty, st) ==
    IF st.err # "" \/ tx >= w THEN st
    ELSE HextileCols(pf, s, w, tx + 16, ty, Tile(pf, s, w, tx, ty, ColWidth(st, w, tx)))

\* tw keeps the width of the last tile of the row above
Mut_RowStart(st, h, ty) ==
    [st EXCEPT !.th = IF ty = h - (h % 16) THEN h % 16 ELSE st.th]

\* if ty == tyLast { th = thLast }; tw = 16
RowStart(st, h, ty) ==
    [st EXCEPT !.th = IF ty = h - (h % 16) THEN h % 16 ELSE st.th, !.tw = 16]

RECURSIVE HextileRows(_, _, _, _, _, _)
HextileRows(pf, s, w, h, ty, st) ==
    IF st.err # "" \/ ty >= h THEN st
    ELSE HextileRows(pf, s, w, h, ty + 16,
                     HextileCols(pf, s, w, 0, ty, RowStart(st, h, ty)))

HextileRun(pf, s, p, w, h) == HextileRows(pf, s, w, h, 0, HextileStart(p, w, h))

\* the encoding returned holds the PNG of img; the PNG is lossless and stands
\* here as the pixels it encodes
HextileDone(st) ==
    IF st.err # "" THEN ReadFailed(st.err, st.pos)
    ELSE [err |-> "", pos |-> st.pos, data |-> st.img, sx |-> 0, sy |-> 0]

HextileRead(pf, s, p, w, h) == HextileDone(HextileRun(pf, s, p, w, h))

\* Encoding.Read of the encoding registered for encType, for a w x h rectangle:
\* [err, pos, data, sx, sy]
EncodingRead(encType, pf, s, p, w, h) ==
    IF encType = RawEncType THEN RawRead(ReadPixels(pf, s, p, h * w))
    ELSE IF encType = CopyRectEncType THEN CopyRectRead(s, p)
    ELSE IF encType = CursorPseudoEncType THEN CursorRead(pf, s, p, w, h)
    ELSE IF encType = HextileEncType THEN HextileRead(pf, s, p, w, h)
    ELSE DesktopSizeRead(s, p)

\* the rectangle loop of FramebufferUpdateMsg.Receive: [err, pos, rects]
RectsJoin(rect, rest) ==
    IF rest.err # "" THEN rest
    ELSE [err |-> "", pos |-> rest.pos, rects |-> <<rect>> \o rest.rects]

RECURSIVE ReadRects(_, _, _, _, _)
ReadRectsStep(e, s, p, numRects, encs, pf) ==
    IF e.err # "" THEN [err |-> e.err, pos |-> e.pos, rects |-> <<>>]
    ELSE RectsJoin(Rect(BEU16(s, p), BEU16(s, p + 2), BEU16(s, p + 4),
                        BEU16(s, p + 6), BEI32(s, p + 8), e.data, e.sx, e.sy),
                   ReadRects(s, e.pos, numRects - 1, encs, pf))

Mut_ReadRects(s, p, numRects, encs, pf) ==
    IF numRects = 0 THEN [err |-> "", pos |-> p, rects |-> <<>>]
    ELSE IF ~Has(s, p, 12) THEN [err |-> "EOF", pos |-> Len(s), rects |-> <<>>]
    ELSE ReadRectsStep(EncodingRead(BEI32(s, p + 8), pf, s, p + 12,
                                    BEU16(s, p + 4), BEU16(s, p + 6)),
                       s, p, numRects, encs, pf)

ReadRects(s, p, numRects, encs, pf) ==
    IF numRects = 0 THEN [err |-> "", pos |-> p, rects |-> <<>>]
    ELSE IF ~Has(s, p, 12) THEN [err |-> "EOF", pos |-> Len(s), rects |-> <<>>]
    ELSE IF BEI32(s, p + 8) \notin encs
    THEN [err |-> "UnsupportedEncoding", pos |-> p + 12, rects |-> <<>>]
    ELSE ReadRectsStep(EncodingRead(BEI32(s, p + 8), pf, s, p + 12,
                                    BEU16(s, p + 4), BEU16(s, p + 6)),
                       s, p, numRects, encs, pf)

\* FramebufferUpdateMsg.Receive returns the rectangles read, or the error
FramebufferUpdateDone(r) ==
    IF r.err # "" THEN [err |-> r.err, pos |-> r.pos, msg |-> NoMsg]
    ELSE [err |-> "", pos |-> r.pos,
          msg |-> [Msg("FramebufferUpdate") EXCEPT !.Rectangles = r.rects]]

\* each Receive reads at offset p of s, after the message id: [err, pos, msg]
FramebufferUpdateReceive(s, p, encs, pf) ==
    IF ~Has(s, p, 1) THEN [err |-> "EOF", pos |-> Len(s), msg |-> NoMsg]
    ELSE IF ~Has(s, p + 1, 2) THEN [err |-> "EOF", pos |-> Len(s), msg |-> NoMsg]
    ELSE FramebufferUpdateDone(ReadRects(s, p + 3, BEU16(s, p + 1), encs, pf))

\* the colours of a SetColorMapEntries message: numColors times three uint16
ReadColors(s, p, numColors) ==
    [i \in 1..numColors |->
        [R |-> BEU16(s, p + 6 * (i - 1)), G |-> BEU16(s, p + 6 * (i - 1) + 2),
         B |-> BEU16(s, p + 6 * (i - 1) + 4)]]

SetColorMapEntriesReceive(s, p) ==
    IF ~Has(s, p, 1) THEN [err |-> "EOF", pos |-> Len(s), msg |-> NoMsg]
    ELSE IF ~Has(s, p + 1, 2) THEN [err |-> "EOF", pos |-> Len(s), msg |-> NoMsg]
    ELSE IF ~Has(s, p + 3, 2) THEN [err |-> "EOF", pos |-> Len(s), msg |-> NoMsg]
    ELSE IF ~Has(s, p + 5, 6 * BEU16(s, p + 3))
    THEN [err |-> "EOF", pos |-> Len(s), msg |-> NoMsg]
    ELSE [err |-> "", pos |-> p + 5 + 6 * BEU16(s, p + 3),
          msg |-> [Msg("SetColorMapEntries") EXCEPT
                      !.FirstColor = BEU16(s, p + 1),
                      !.Colors = ReadColors(s, p + 5, BEU16(s, p + 3))]]

BellReceive(s, p) == [err |-> "", pos |-> p, msg |-> Msg("Bell")]

\* only one of the three padding bytes is skipped
Mut_ServerCutTextReceive(s, p) ==
    IF ~Has(s, p, 1) THEN [err |-> "EOF", pos |-> Len(s), msg |-> NoMsg]
    ELSE IF ~Has(s, p + 1, 4) THEN [err |-> "EOF", pos |-> Len(s), msg |-> NoMsg]
    ELSE IF ~Has(s, p + 5, BEU32(s, p + 1))
    THEN [err |-> "EOF", pos |-> Len(s), msg |-> NoMsg]
    ELSE [err |-> "", pos |-> p + 5 + BEU32(s, p + 1),
          msg |-> [Msg("ServerCutText") EXCEPT
                      !.Text = Bytes(s, p + 5, BEU32(s, p + 1))]]

ServerCutTextReceive(s, p) ==
    IF ~Has(s, p, 3) THEN [err |-> "EOF", pos |-> Len(s), msg |-> NoMsg]
    ELSE IF ~Has(s, p + 3, 4) THEN [err |-> "EOF", pos |-> Len(s), msg |-> NoMsg]
    ELSE IF ~Has(s, p + 7, BEU32(s, p + 3))
    THEN [err |-> "EOF", pos |-> Len(s), msg |-> NoMsg]
    ELSE [err |-> "", pos |-> p + 7 + BEU32(s, p + 3),
          msg |-> [Msg("ServerCutText") EXCEPT
                      !.Text = Bytes(s, p + 7, BEU32(s, p + 3))]]

\* an id without a decoder is taken for a Bell
Mut_ServerMessageFor(mid, serverMessages) ==
    IF mid = FramebufferUpdateMID THEN "FramebufferUpdate"
    ELSE IF mid = SetColorMapEntriesMID THEN "SetColorMapEntries"
    ELSE IF mid = ServerCutTextMID THEN "ServerCutText"
    ELSE "Bell"

\* c.config.ServerMessages[mid]: the decoder registered for mid, "nil" for none
ServerMessageFor(mid, serverMessages) ==
    IF mid \in DOMAIN serverMessages THEN serverMessages[mid] ELSE "nil"

\* m.Receive(c) of the decoder m, reading after the message id
Receive(m, s, p, encs, pf) ==
    IF m = "FramebufferUpdate" THEN FramebufferUpdateReceive(s, p, encs, pf)
    ELSE IF m = "SetColorMapEntries" THEN SetColorMapEntriesReceive(s, p)
    ELSE IF m = "Bell" THEN BellReceive(s, p)
    ELSE ServerCutTextReceive(s, p)

\* what ReceiveMsg returns once the decoder m for mid has returned r
Received(mid, m, r) ==
    [err |-> r.err, pos |-> r.pos, msg |-> IF r.err = "" THEN r.msg ELSE NoMsg,
     mid |-> mid, decoder |-> m]

\* the lookup of ReceiveMsg and what follows it
Dispatch(mid, m, s, p, encs, pf) ==
    IF m = "nil"
    THEN [err |-> "UnknownServerMessage", pos |-> p + 1, msg |-> NoMsg,
          mid |-> mid, decoder |-> m]
    ELSE Received(mid, m, Receive(m, s, p + 1, encs, pf))

\* ClientConn.ReceiveMsg reading at offset p of s: [err, pos, msg, mid, decoder]
ReceiveMsgAt(s, p, serverMessages, encs, pf) ==
    IF ~Has(s, p, 1)
    THEN [err |-> "EOF", pos |-> Len(s), msg |-> NoMsg, mid |-> -1, decoder |-> "nil"]
    ELSE Dispatch(s[p + 1], ServerMessageFor(s[p + 1], serverMessages), s, p, encs, pf)

(***************************************************************************)
(* The session after the handshake: the server puts messages on the        *)
(* stream, the consumer calls ReceiveMsg (and applies a received           *)
(* SetColorMapEntries with UpdateColorMap), the producer sends             *)
(* SetEncodings.  Stream offsets count from the end of ServerInit.         *)
(***************************************************************************)
MaxMsgs == 2          \* messages the server sends in one run
MaxRects == 2         \* rectangles in one FramebufferUpdate
MaxColors == 1        \* colours in one SetColorMapEntries
MaxTextLen == 1       \* bytes of a ServerCutText
MaxSends == 1         \* client messages sent in one run

White == [R |-> 65535, G |-> 65535, B |-> 65535]

\* the wire bytes of the pixels the server sends for a 1x2 Raw rectangle
RawPayload(pf) ==
    IF pf.ByPP = 1 THEN <<0, 1>>
    ELSE IF pf.ByPP = 4 THEN <<0, 255, 0, 0, 0, 255, 0, 0>>
    ELSE [i \in 1..(2 * pf.ByPP) |-> 0]

\* the rectangles the server draws from, one per encoding
ServerRects(pf) ==
    <<Rect(0, 0, 1, 2, RawEncType, RawPayload(pf), 0, 0),
      Rect(3, 4, 5, 6, CopyRectEncType, <<>>, 1, 2),
      Rect(0, 0, 800, 600, DesktopSizePseudoEncType, <<>>, 0, 0)>>

\* the rectangle lists of up to MaxRects rectangles that go round ServerRects
\* from any of its entries
ServerRectLists(pf) ==
    {[i \in 1..n |-> ServerRects(pf)[((k + i) % 3) + 1]] : n \in {0, MaxRects}, k \in 0..2}

ServerMsgs(pf) ==
    {Msg("Bell")}
        \cup {[Msg("ServerCutText") EXCEPT !.Text = [i \in 1..n |-> 104]] :
                 n \in {0, MaxTextLen}}
        \cup {[Msg("SetColorMapEntries") EXCEPT !.FirstColor = f, !.Colors = c] :
                 f \in {0, 255}, c \in {[i \in 1..MaxColors |-> White], <<Black, White>>}}
        \cup {[Msg("FramebufferUpdate") EXCEPT !.Rectangles = r] :
                 r \in ServerRectLists(pf)}

RECURSIVE Concat(_)
Concat(ss) == IF ss = <<>> THEN <<>> ELSE Head(ss) \o Concat(Tail(ss))

RectBytes(r) ==
    U16(r.X) \o U16(r.Y) \o U16(r.Width) \o U16(r.Height) \o I32(r.EncType)
        \o (IF r.EncType = CopyRectEncType THEN U16(r.SX) \o U16(r.SY) ELSE r.data)

ColorBytes(c) == U16(c.R) \o U16(c.G) \o U16(c.B)

\* the server's encoding of a message (RFC 6143, 7.6)
MsgBytes(m) ==
    IF m.kind = "Bell" THEN <<BellMID>>
    ELSE IF m.kind = "ServerCutText"
    THEN <<ServerCutTextMID, 0, 0, 0>> \o U32(Len(m.Text)) \o m.Text
    ELSE IF m.kind = "SetColorMapEntries"
    THEN <<SetColorMapEntriesMID, 0>> \o U16(m.FirstColor) \o U16(Len(m.Colors))
            \o Concat([i \in 1..Len(m.Colors) |-> ColorBytes(m.Colors[i])])
    ELSE IF m.kind = "FramebufferUpdate"
    THEN <<FramebufferUpdateMID, 0>> \o U16(Len(m.Rectangles))
            \o Concat([i \in 1..Len(m.Rectangles) |-> RectBytes(m.Rectangles[i])])
    ELSE <<m.FirstColor, 7>>

\* a message id no decoder is registered for (FirstColor carries the id)
UnknownMsgs == {[Msg("Unknown") EXCEPT !.FirstColor = i] : i \in {4, 255}}

\* messages cut short by the server closing the stream
PartialMsgs ==
    {<<>>, <<ServerCutTextMID, 0, 0, 0, 0, 0, 0, 1>>}

\* the connection after a successful Handshake
InitMsg ==
    /\ pc = "Ready"
    /\ inp = <<>>
    /\ rpos = 0
    /\ closed = FALSE
    /\ wr = <<>>
    /\ err = ""
    /\ phases = <<>>
    /\ config = [Auth |-> <<NoneSecType>>, Exclusive |-> FALSE,
                 ServerMessages |-> RequiredMessages]
    /\ protocolVersion = ProtocolVersion3_8
    /\ securityType = NoneSecType
    /\ pixelFormat \in {NewPixelFormat(f) : f \in ServerPixelFormats}
    /\ encodingMap = {RawEncType}
    /\ FrameBufferWidth = 640
    /\ FrameBufferHeight = 480
    /\ DesktopName = TestName
    /\ sent = <<>>
    /\ got = <<>>
    /\ last = LastOp("Handshake", 0)

ServerSend(m) ==
    /\ ~closed
    /\ Len(sent) < MaxMsgs
    /\ IF sent = <<>> THEN TRUE ELSE sent[Len(sent)].kind # "Unknown"
    /\ inp' = inp \o MsgBytes(m)
    /\ sent' = Append(sent, m)
    /\ UNCHANGED <<pc, rpos, closed, wr, err, phases, config, protocolVersion,
                   securityType, pixelFormat, encodingMap, FrameBufferWidth,
                   FrameBufferHeight, DesktopName, got, last>>

ServerClose(partial) ==
    /\ ~closed
    /\ inp' = inp \o partial
    /\ closed' = TRUE
    /\ UNCHANGED <<pc, rpos, wr, err, phases, config, protocolVersion,
                   securityType, pixelFormat, encodingMap, FrameBufferWidth,
                   FrameBufferHeight, DesktopName, sent, got, last>>

\* ReceiveMsg blocks while the bytes it needs have not arrived and the stream
\* is open; the caller stops at the first error
ReceiveMsgReturns(r) ==
    /\ r.err = "EOF" => closed
    /\ rpos' = r.pos
    /\ err' = r.err
    /\ pc' = IF r.err = "" THEN "Ready"
             ELSE IF r.err = "panic" THEN "Crashed" ELSE "Failed"
    /\ got' = Append(got, [err |-> r.err, msg |-> r.msg, from |-> rpos,
                           to |-> r.pos, mid |-> r.mid, decoder |-> r.decoder,
                           encs |-> encodingMap, bypp |-> pixelFormat.ByPP])
    /\ last' = LastOp("ReceiveMsg", rpos)

ReceiveMsg ==
    /\ pc = "Ready"
    /\ ReceiveMsgReturns(ReceiveMsgAt(inp, rpos, config.ServerMessages, encodingMap,
                                      pixelFormat))
    /\ UNCHANGED <<inp, closed, wr, phases, config, protocolVersion, securityType,
                   pixelFormat, encodingMap, FrameBufferWidth, FrameBufferHeight,
                   DesktopName, sent>>

UpdateColorMapReturns(m, r) ==
    /\ pixelFormat' = [pixelFormat EXCEPT !.ColorMap = r.cm]
    /\ pc' = IF r.status = "panic" THEN "Crashed" ELSE "Ready"
    /\ err' = IF r.status = "error" THEN "OutOfRange" ELSE ""
    /\ last' = [op |-> "UpdateColorMap", from |-> rpos, first |-> m.FirstColor,
                colors |-> m.Colors, before |-> pixelFormat.ColorMap,
                status |-> r.status]

\* the consumer applies the SetColorMapEntries it has just received:
\* c.PixelFormat().ColorMap.UpdateColorMap(msg.FirstColor, msg.Colors)
UpdateColorMap ==
    /\ pc = "Ready"
    /\ last.op = "ReceiveMsg"
    /\ got # <<>>
    /\ got[Len(got)].msg.kind = "SetColorMapEntries"
    /\ UpdateColorMapReturns(got[Len(got)].msg,
                             UpdateColorMapOf(pixelFormat.ColorMap,
                                              got[Len(got)].msg.FirstColor,
                                              got[Len(got)].msg.Colors))
    /\ UNCHANGED <<inp, rpos, closed, wr, phases, config, protocolVersion,
                   securityType, encodingMap, FrameBufferWidth, FrameBufferHeight,
                   DesktopName, sent, got>>

\* the bytes SetEncodingsMsg.Send writes: buf[0] = m.ID, one padding byte, the
\* count and the type codes
SetEncodingsBytes(m) ==
    <<m.ID % 256, 0>> \o U16(Len(m.Encodings))
        \o Concat([i \in 1..Len(m.Encodings) |-> I32(m.Encodings[i])])

\* what a Send call is observed to have been given and to have found: the
\* message, the writes made before it, the pixel format and the encoding map
LastSend(kind, m, e) ==
    [op |-> "SendMsg", kind |-> kind, msg |-> m, from |-> Len(wr), status |-> e,
     pf |-> pixelFormat, encs |-> encodingMap]

\* the map grows with every SetEncodings instead of being rebuilt
Mut_SetEncodingsSend(m, wok) ==
    /\ pc \in {"Ready", "Decoding"}
    /\ wr' = Append(wr, [by |-> "SetEncodings", data |-> SetEncodingsBytes(m), ok |-> wok])
    /\ err' = IF wok THEN "" ELSE "WriteError"
    /\ encodingMap' = IF wok THEN encodingMap \cup Range(m.Encodings) ELSE encodingMap
    /\ last' = LastSend("SetEncodings", m, IF wok THEN "" ELSE "WriteError")
    /\ UNCHANGED <<pc, inp, rpos, closed, phases, config, protocolVersion,
                   securityType, pixelFormat, FrameBufferWidth, FrameBufferHeight,
                   DesktopName, sent, got>>

\* SetEncodingsMsg.Send: the map is rebuilt only when the Write succeeded
SetEncodingsSend(m, wok) ==
    /\ pc \in {"Ready", "Decoding"}
    /\ wr' = Append(wr, [by |-> "SetEncodings", data |-> SetEncodingsBytes(m), ok |-> wok])
    /\ err' = IF wok THEN "" ELSE "WriteError"
    /\ encodingMap' = IF wok THEN {RawEncType} \cup Range(m.Encodings) ELSE encodingMap
    /\ last' = LastSend("SetEncodings", m, IF wok THEN "" ELSE "WriteError")
    /\ UNCHANGED <<pc, inp, rpos, closed, phases, config, protocolVersion,
                   securityType, pixelFormat, FrameBufferWidth, FrameBufferHeight,
                   DesktopName, sent, got>>

SetEncodingsMsgs ==
    [ID : {2},
     Encodings : {<<CopyRectEncType, DesktopSizePseudoEncType>>}]

NextMsg ==
    \/ \E m \in ServerMsgs(pixelFormat) \cup UnknownMsgs : ServerSend(m)
    \/ \E partial \in PartialMsgs : ServerClose(partial)
    \/ ReceiveMsg
    \/ UpdateColorMap
    \/ \E m \in SetEncodingsMsgs, wok \in BOOLEAN :
          Len(wr) < MaxSends /\ SetEncodingsSend(m, wok)

SpecMsg == InitMsg /\ [][NextMsg]_vars

(***************************************************************************)
(* Client messages.  A message value is the Go struct, its ID field         *)
(* included; Send writes the struct (or a buffer built from it) with one    *)
(* Write.  A Go string is a byte sequence; ranging over it decodes UTF-8.   *)
(***************************************************************************)
SetPixelFormatMID == 0

SetEncodingsMID == 2

FramebufferUpdateRequestMID == 3

KeyEventMID == 4

PointerEventMID == 5

ClientCutTextMID == 6

\* unicode.MaxLatin1
MaxLatin1 == 255

\* utf8.RuneError, what ranging over a string yields for a byte that starts no
\* valid encoding
RuneError == 65533

\* the bytes of a Go string holding one character (code points below 2048)
EncodeRune(cp) ==
    IF cp < 128 THEN <<cp>> ELSE <<192 + (cp \div 64), 128 + (cp % 64)>>

\* the Go string holding the characters cps
UTF8(cps) == Concat([i \in 1..Len(cps) |-> EncodeRune(cps[i])])

\* the characters "for _, char := range text" yields (encodings of up to two
\* bytes; any other byte yields RuneError)
RECURSIVE Runes(_)
Runes(text) ==
    IF text = <<>> THEN <<>>
    ELSE IF text[1] < 128 THEN <<text[1]>> \o Runes(Tail(text))
    ELSE IF /\ text[1] \in 194..223
            /\ Len(text) >= 2
            /\ text[2] \in 128..191
    THEN <<(text[1] - 192) * 64 + (text[2] - 128)>> \o Runes(SubSeq(text, 3, Len(text)))
    ELSE <<RuneError>> \o Runes(Tail(text))

\* the text is written whatever characters it holds
Mut_IsLatin1(text) == TRUE

\* the validation loop of ClientCutTextMsg.Send
IsLatin1(text) == \A i \in 1..Len(Runes(text)) : Runes(text)[i] <= MaxLatin1

\* writeFixedSize(c.c, m) of each struct: its fields in order, big-endian,
\* blank fields as zero bytes
SetPixelFormatBytes(m) == <<m.ID, 0, 0, 0>> \o RFBPixelFormatBytes(m.rpf)

FramebufferUpdateRequestBytes(m) ==
    <<m.ID, m.Incremental>> \o U16(m.X) \o U16(m.Y) \o U16(m.Width) \o U16(m.Height)

KeyEventBytes(m) == <<m.ID, m.DownFlag, 0, 0>> \o U32(m.Key)

PointerEventBytes(m) == <<m.ID, m.ButtonMask>> \o U16(m.X) \o U16(m.Y)

\* the buffer of ClientCutTextMsg.Send: buf[0] = m.ID, three zero bytes, the
\* length of []byte(m.Text) and those bytes
ClientCutTextBytes(m) == <<m.ID, 0, 0, 0>> \o U32(Len(m.Text)) \o m.Text

\* a Send that only writes: one Write of data, no other effect
WriteOnly(kind, m, data, wok) ==
    /\ pc = "Ready"
    /\ wr' = Append(wr, [by |-> kind, data |-> data, ok |-> wok])
    /\ err' = IF wok THEN "" ELSE "WriteError"
    /\ last' = LastSend(kind, m, IF wok THEN "" ELSE "WriteError")
    /\ UNCHANGED <<pc, inp, rpos, closed, phases, config, protocolVersion,
                   securityType, pixelFormat, encodingMap, FrameBufferWidth,
                   FrameBufferHeight, DesktopName, sent, got>>

\* SetPixelFormatMsg.Send: the pixel format is replaced when the Write succeeded
SetPixelFormatSend(m, wok) ==
    /\ pc \in {"Ready", "Decoding"}
    /\ wr' = Append(wr, [by |-> "SetPixelFormat", data |-> SetPixelFormatBytes(m),
                         ok |-> wok])
    /\ err' = IF wok THEN "" ELSE "WriteError"
    /\ pixelFormat' = IF wok THEN NewPixelFormat(m.rpf) ELSE pixelFormat
    /\ last' = LastSend("SetPixelFormat", m, IF wok THEN "" ELSE "WriteError")
    /\ UNCHANGED <<pc, inp, rpos, closed, phases, config, protocolVersion,
                   securityType, encodingMap, FrameBufferWidth, FrameBufferHeight,
                   DesktopName, sent, got>>

FramebufferUpdateRequestSend(m, wok) ==
    WriteOnly("FramebufferUpdateRequest", m, FramebufferUpdateRequestBytes(m), wok)

KeyEventSend(m, wok) == WriteOnly("KeyEvent", m, KeyEventBytes(m), wok)

PointerEventSend(m, wok) == WriteOnly("PointerEvent", m, PointerEventBytes(m), wok)

\* ClientCutTextMsg.Send: the text is validated before the buffer is built
ClientCutTextSend(m, wok) ==
    IF IsLatin1(m.Text)
    THEN WriteOnly("ClientCutText", m, ClientCutTextBytes(m), wok)
    ELSE /\ pc = "Ready"
         /\ err' = "InvalidText"
         /\ last' = LastSend("ClientCutText", m, "InvalidText")
         /\ UNCHANGED <<pc, inp, rpos, closed, wr, phases, config, protocolVersion,
                        securityType, pixelFormat, encodingMap, FrameBufferWidth,
                        FrameBufferHeight, DesktopName, sent, got>>

(***************************************************************************)
(* The producer changing the pixel format and the encodings while the      *)
(* consumer receives: SetPixelFormat and SetEncodings sends, succeeding or *)
(* failing, around the receipt of one server message.                      *)
(***************************************************************************)
MaxClientSends == 2   \* SetPixelFormat and SetEncodings sends in one run

SetPixelFormatMsgs == [ID : {SetPixelFormatMID}, rpf : ServerPixelFormats]

EncodingLists ==
    {<<>>, <<CopyRectEncType>>, <<HextileEncType, CursorPseudoEncType>>}

SetEncodingsOf == [ID : {SetEncodingsMID}, Encodings : EncodingLists]

\* what the server has to say in this scenario
PaletteMsgs ==
    {Msg("Bell"),
     [Msg("SetColorMapEntries") EXCEPT !.FirstColor = 0, !.Colors = <<White>>]}

NextSend ==
    \/ \E m \in PaletteMsgs : sent = <<>> /\ ServerSend(m)
    \/ ReceiveMsg
    \/ UpdateColorMap
    \/ \E m \in SetPixelFormatMsgs, wok \in BOOLEAN :
          Len(wr) < MaxClientSends /\ SetPixelFormatSend(m, wok)
    \/ \E m \in SetEncodingsOf, wok \in BOOLEAN :
          Len(wr) < MaxClientSends /\ SetEncodingsSend(m, wok)

SpecSend == InitMsg /\ [][NextSend]_vars

(***************************************************************************)
(* The six client messages as SendMsg writes them, for every value the     *)
(* caller may have left in the ID field.                                   *)
(***************************************************************************)
MaxWireSends == 1     \* messages written in one run

\* what a caller may have in the ID field: the zero value, the id of the kind
CallerIDs(mid) == {0, mid}

\* texts of ASCII characters, of Latin-1 characters above 127, and with a
\* character beyond Latin-1 first, last or alone
CodePoints ==
    {<<>>, <<65>>, <<65, 66>>, <<233>>, <<65, 255>>, <<128, 65>>, <<256>>,
     <<65, 256>>, <<256, 65>>}

\* the Go strings a caller passes: these texts, and a string holding the
\* single byte 0xE9, which is no UTF-8
CutTexts == {UTF8(cps) : cps \in CodePoints} \cup {<<233>>}

FramebufferUpdateRequestMsgs ==
    [ID : CallerIDs(FramebufferUpdateRequestMID), Incremental : {1}, X : {1},
     Y : {2}, Width : {640}, Height : {480}]

KeyEventMsgs == [ID : CallerIDs(KeyEventMID), DownFlag : {1}, Key : {65293}]

PointerEventMsgs == [ID : CallerIDs(PointerEventMID), ButtonMask : {5}, X : {258}, Y : {3}]

ClientCutTextMsgs == [ID : CallerIDs(ClientCutTextMID), Text : CutTexts]

NextWire ==
    \/ \E m \in [ID : CallerIDs(SetPixelFormatMID), rpf : ServerPixelFormats],
          wok \in BOOLEAN :
          Len(wr) < MaxWireSends /\ SetPixelFormatSend(m, wok)
    \/ \E m \in [ID : CallerIDs(SetEncodingsMID), Encodings : EncodingLists],
          wok \in BOOLEAN :
          Len(wr) < MaxWireSends /\ SetEncodingsSend(m, wok)
    \/ \E m \in FramebufferUpdateRequestMsgs, wok \in BOOLEAN :
          Len(wr) < MaxWireSends /\ FramebufferUpdateRequestSend(m, wok)
    \/ \E m \in KeyEventMsgs, wok \in BOOLEAN :
          Len(wr) < MaxWireSends /\ KeyEventSend(m, wok)
    \/ \E m \in PointerEventMsgs, wok \in BOOLEAN :
          Len(wr) < MaxWireSends /\ PointerEventSend(m, wok)
    \/ \E m \in ClientCutTextMsgs, wok \in BOOLEAN :
          Len(wr) < MaxWireSends /\ ClientCutTextSend(m, wok)

SpecWire == InitMsg /\ [][NextWire]_vars

(***************************************************************************)
(* NewClientConn.  Before the call config holds the configuration of the   *)
(* caller; a Go slice or map that is nil is an empty one with its Nil flag *)
(* set.                                                                    *)
(***************************************************************************)
\* message ids a caller may register, decoders FramebufferUpdate..ServerCutText
\* or one of the caller's own
CallerIDsOfMessages == {0, 3, 4}
CallerDecoders == {"Bell", "Custom"}

CallerMaps == UNION {[K -> CallerDecoders] : K \in SUBSET CallerIDsOfMessages}

CallerConfigs ==
    {[Auth |-> a.s, AuthNil |-> a.n, Exclusive |-> x,
      ServerMessages |-> m.s, ServerMessagesNil |-> m.n] :
        a \in {[s |-> <<>>, n |-> TRUE]}
              \cup {[s |-> s, n |-> FALSE] : s \in {<<>>, <<VNCSecType>>}},
        x \in BOOLEAN,
        m \in {[s |-> <<>>, n |-> TRUE]}
              \cup {[s |-> s, n |-> FALSE] : s \in CallerMaps}}

InitNew ==
    /\ pc = "NewClientConn"
    /\ inp = <<>>
    /\ rpos = 0
    /\ closed = FALSE
    /\ wr = <<>>
    /\ err = ""
    /\ phases = <<>>
    /\ config \in CallerConfigs
    /\ protocolVersion = <<>>
    /\ securityType = InvalidSecType
    /\ pixelFormat = NilPixelFormat
    /\ encodingMap = {}
    /\ FrameBufferWidth = 0
    /\ FrameBufferHeight = 0
    /\ DesktopName = <<>>
    /\ sent = <<>>
    /\ got = <<>>
    /\ last = [op |-> "", cfg |-> <<>>]

\* cfg.Auth after lines 158-161
AuthOrNone(cfg) == IF cfg.AuthNil THEN <<NoneSecType>> ELSE cfg.Auth

\* the map after the loop of lines 170-172 has stored the four decoders in it
AddRequired(serverMessages) ==
    [i \in DOMAIN serverMessages \cup DOMAIN RequiredMessages |->
        IF i \in DOMAIN RequiredMessages THEN RequiredMessages[i] ELSE serverMessages[i]]

\* net.Dial failed: the error is returned, the configuration is untouched
NewClientConnDialError ==
    /\ pc = "NewClientConn"
    /\ pc' = "Failed"
    /\ err' = "dial"
    /\ last' = [op |-> "NewClientConn", cfg |-> config]
    /\ UNCHANGED <<inp, rpos, closed, wr, phases, config, protocolVersion,
                   securityType, pixelFormat, encodingMap, FrameBufferWidth,
                   FrameBufferHeight, DesktopName, sent, got>>

\* with a connection at hand: the store into a nil map panics, after cfg.Auth
\* has been set; otherwise the connection is returned
NewClientConn ==
    /\ pc = "NewClientConn"
    /\ last' = [op |-> "NewClientConn", cfg |-> config]
    /\ IF config.ServerMessagesNil
       THEN /\ pc' = "Panic"
            /\ config' = [config EXCEPT !.Auth = AuthOrNone(config), !.AuthNil = FALSE]
            /\ UNCHANGED encodingMap
       ELSE /\ pc' = "ProtocolVersion"
            /\ config' = [Auth |-> AuthOrNone(config), Exclusive |-> config.Exclusive,
                          ServerMessages |-> AddRequired(config.ServerMessages)]
            /\ encodingMap' = {RawEncType}
    /\ UNCHANGED <<inp, rpos, closed, wr, err, phases, protocolVersion,
                   securityType, pixelFormat, FrameBufferWidth,
                   FrameBufferHeight, DesktopName, sent, got>>

NextNew == NewClientConn \/ NewClientConnDialError

SpecNew == InitNew /\ [][NextNew]_vars

(***************************************************************************)
(* Updates of Cursor and Hextile rectangles, once the client has asked for *)
(* these encodings.  The server writes pixels in the client's pixel        *)
(* format.                                                                 *)
(***************************************************************************)
MaxUpdates == 1       \* updates the server sends in one run

\* a pixel of bypp bytes, each byte v; the first of four bytes, above the
\* depth of 24, is 0
Px(bypp, v) == [i \in 1..bypp |-> IF bypp = 4 /\ i = 1 THEN 0 ELSE v]

\* n pixels, the i-th of bytes v + i
Pxs(bypp, n, v) == Concat([i \in 1..n |-> Px(bypp, (v + i) % 256)])

\* Hextile tiles on the wire (RFC 6143, 7.7.4): background given; nothing
\* given; raw; foreground and one subrectangle at (1,2) of 4 x 1; background
\* and two coloured subrectangles, at (0,0) of 1 x 1 and at (1,1) of 16 x 16;
\* background, foreground and one subrectangle at (15,0) of 16 x 1, which
\* reaches over the right edge of its tile; raw with the bits of background
\* and subrectangles set as well; one subrectangle at (0,0) of 1 x 1 and
\* nothing else given
TileFillBytes(bypp, v) == <<2>> \o Px(bypp, v)
TileSameBytes == <<0>>
TileRawBytes(bypp, n, v) == <<1>> \o Pxs(bypp, n, v)
TileSubrectBytes(bypp, v) == <<12>> \o Px(bypp, v) \o <<1, 18, 48>>
TileColoredBytes(bypp, v) ==
    <<26>> \o Px(bypp, v) \o <<2>> \o Px(bypp, 255) \o <<0, 0>>
           \o Px(bypp, 15) \o <<17, 255>>

TileSpillBytes(bypp, v) == <<14>> \o Px(bypp, v) \o Px(bypp, 127) \o <<1, 240, 240>>
\* the same with the subrectangle at (0,15) of 1 x 16, over the bottom edge
TileSpillDownBytes(bypp, v) ==
    <<14>> \o Px(bypp, v) \o Px(bypp, 127) \o <<1, 15, 15>>
TileRawMoreBytes(bypp, n, v) == <<11>> \o Pxs(bypp, n, v)
TileCarriedBytes == <<8, 1, 0, 0>>

HextileRects(bypp) ==
    {Rect(0, 0, 17, 17, HextileEncType,
          TileFillBytes(bypp, 255) \o TileSameBytes \o TileRawBytes(bypp, 16, 0)
              \o TileColoredBytes(bypp, 7), 0, 0),
     Rect(0, 0, 17, 17, HextileEncType,
          TileSameBytes \o TileSameBytes \o TileSameBytes \o TileSameBytes, 0, 0),
     Rect(3, 4, 2, 2, HextileEncType, TileRawBytes(bypp, 4, 100), 0, 0),
     Rect(0, 0, 33, 1, HextileEncType,
          TileSpillBytes(bypp, 63) \o TileRawMoreBytes(bypp, 16, 30)
              \o TileCarriedBytes, 0, 0),
     Rect(0, 0, 1, 17, HextileEncType,
          TileSpillDownBytes(bypp, 63) \o TileCarriedBytes, 0, 0),
     Rect(0, 0, 32, 1, HextileEncType,
          TileSpillBytes(bypp, 63) \o TileCarriedBytes, 0, 0),
     Rect(0, 0, 16, 17, HextileEncType, TileFillBytes(bypp, 3) \o TileSameBytes, 0, 0),
     Rect(0, 0, 32, 16, HextileEncType,
          TileFillBytes(bypp, 1) \o TileSubrectBytes(bypp, 255), 0, 0)}

\* cursors: pixels row by row, then the mask rows of (W+7)/8 bytes
CursorRects(bypp) ==
    {Rect(0, 0, 1, 1, CursorPseudoEncType, Pxs(bypp, 1, 254) \o <<128>>, 0, 0),
     Rect(0, 0, 1, 1, CursorPseudoEncType, Pxs(bypp, 1, 254) \o <<255>>, 0, 0),
     Rect(1, 0, 2, 1, CursorPseudoEncType, Pxs(bypp, 2, 200) \o <<128>>, 0, 0),
     Rect(0, 1, 9, 2, CursorPseudoEncType,
          Pxs(bypp, 18, 100) \o <<255, 128, 0, 0>>, 0, 0)}

EncMsgs(bypp) ==
    {[Msg("FramebufferUpdate") EXCEPT !.Rectangles = <<r>>] :
        r \in HextileRects(bypp) \cup CursorRects(bypp)}

NextEnc ==
    \/ \E m \in [ID : {SetEncodingsMID},
                 Encodings : {<<HextileEncType, CursorPseudoEncType>>}],
          wok \in BOOLEAN :
          wr = <<>> /\ SetEncodingsSend(m, wok)
    \/ \E m \in EncMsgs(pixelFormat.ByPP) : Len(sent) < MaxUpdates /\ ServerSend(m)
    \/ ReceiveMsg

SpecEnc == InitMsg /\ [][NextEnc]_vars

(***************************************************************************)
(* One consumer in ReceiveMsg and one producer in SendMsg on the same      *)
(* connection.  Neither takes a lock, so the producer's Send runs between  *)
(* any two steps of FramebufferUpdateMsg.Receive; the steps are the header *)
(* and each turn of the rectangle loop, which reads c.encodingMap and      *)
(* c.pixelFormat anew.  While the loop runs pc is "Decoding" and the last  *)
(* entry of got is the call in progress: left counts the rectangles still  *)
(* to come, used lists what each rectangle was decoded with.               *)
(***************************************************************************)
MaxConcSends == 1     \* messages the producer sends in one run

\* updates of two rectangles
ConcMsgs(bypp) ==
    {[Msg("FramebufferUpdate") EXCEPT !.Rectangles = rs] :
        rs \in {<<Rect(0, 0, 1, 1, RawEncType, Px(bypp, 127), 0, 0),
                  Rect(1, 0, 1, 1, RawEncType, Px(bypp, 1), 0, 0)>>,
                <<Rect(0, 0, 1, 1, RawEncType, Px(bypp, 127), 0, 0),
                  Rect(1, 0, 1, 1, CopyRectEncType, <<>>, 0, 0)>>,
                <<>>}}

\* ReceiveMsg up to the rectangle loop: message id, padding, numRects
ReceiveBegin ==
    /\ pc = "Ready"
    /\ Has(inp, rpos, 4)
    /\ ServerMessageFor(inp[rpos + 1], config.ServerMessages) = "FramebufferUpdate"
    /\ rpos' = rpos + 4
    /\ pc' = IF BEU16(inp, rpos + 2) = 0 THEN "Ready" ELSE "Decoding"
    /\ err' = IF BEU16(inp, rpos + 2) = 0 THEN "" ELSE err
    /\ got' = Append(got, [err |-> IF BEU16(inp, rpos + 2) = 0 THEN "" ELSE "decoding",
                           msg |-> Msg("FramebufferUpdate"), from |-> rpos,
                           to |-> rpos + 4, mid |-> inp[rpos + 1],
                           decoder |-> "FramebufferUpdate",
                           left |-> BEU16(inp, rpos + 2), used |-> <<>>])
    /\ last' = LastOp("ReceiveMsg", rpos)
    /\ UNCHANGED <<inp, closed, wr, phases, config, protocolVersion, securityType,
                   pixelFormat, encodingMap, FrameBufferWidth, FrameBufferHeight,
                   DesktopName, sent>>

\* the call in progress after one more rectangle
RectDecoded(e, r, pf, encs) ==
    [e EXCEPT !.err = IF r.err # "" THEN r.err
                      ELSE IF e.left = 1 THEN "" ELSE "decoding",
              !.msg = IF r.err # "" THEN NoMsg
                      ELSE [e.msg EXCEPT !.Rectangles = e.msg.Rectangles \o r.rects],
              !.to = r.pos,
              !.left = e.left - 1,
              !.used = Append(e.used, [pf |-> pf, encs |-> encs])]

ReceiveRectReturns(r) ==
    /\ r.err = "EOF" => closed
    /\ rpos' = r.pos
    /\ pc' = IF r.err = "panic" THEN "Crashed"
             ELSE IF r.err # "" THEN "Failed"
             ELSE IF got[Len(got)].left = 1 THEN "Ready" ELSE "Decoding"
    /\ err' = IF r.err # "" THEN r.err
              ELSE IF got[Len(got)].left = 1 THEN "" ELSE err
    /\ got' = [got EXCEPT ![Len(got)] = RectDecoded(@, r, pixelFormat, encodingMap)]

\* one turn of the rectangle loop, with the encoding map and the pixel format
\* the connection holds at that moment
ReceiveRect ==
    /\ pc = "Decoding"
    /\ ReceiveRectReturns(ReadRects(inp, rpos, 1, encodingMap, pixelFormat))
    /\ UNCHANGED <<inp, closed, wr, phases, config, protocolVersion, securityType,
                   pixelFormat, encodingMap, FrameBufferWidth, FrameBufferHeight,
                   DesktopName, sent, last>>

NextConc ==
    \/ \E m \in ConcMsgs(pixelFormat.ByPP) : Len(sent) < MaxUpdates /\ ServerSend(m)
    \/ ReceiveBegin
    \/ ReceiveRect
    \/ \E m \in SetPixelFormatMsgs, wok \in BOOLEAN :
          Len(wr) < MaxConcSends /\ SetPixelFormatSend(m, wok)
    \/ \E m \in SetEncodingsOf, wok \in BOOLEAN :
          Len(wr) < MaxConcSends /\ SetEncodingsSend(m, wok)

SpecConc == InitMsg /\ [][NextConc]_vars

(***************************************************************************)
(* Pixel formats beyond the two the server offers at ServerInit: a caller  *)
(* may put any record into a SetPixelFormat message.  The server writes    *)
(* one-pixel Raw rectangles in the format the client holds.                *)
(***************************************************************************)
\* 16 bits per pixel, palette
PF16 ==
    [BPP |-> 16, Depth |-> 16, BigEndian |-> 1, TrueColor |-> 0, RedMax |-> 31,
     GreenMax |-> 63, BlueMax |-> 31, RedShift |-> 11, GreenShift |-> 5,
     BlueShift |-> 0]

\* 24 bits per pixel, which RFC 6143 does not allow
PF24 ==
    [BPP |-> 24, Depth |-> 24, BigEndian |-> 1, TrueColor |-> 1, RedMax |-> 255,
     GreenMax |-> 255, BlueMax |-> 255, RedShift |-> 16, GreenShift |-> 8,
     BlueShift |-> 0]

CallerPixelFormats == ServerPixelFormats \cup {PF16, PF24}

\* the pixel value v in bypp bytes, big-endian
PxOf(bypp, v) == [i \in 1..bypp |-> (v \div (256 ^ (bypp - i))) % 256]

PixelMsgs(bypp) ==
    {[Msg("FramebufferUpdate") EXCEPT
         !.Rectangles = <<Rect(0, 0, 1, 1, RawEncType, PxOf(bypp, v), 0, 0)>>] :
        v \in {0, 256}}

\* the palette entry 0 becomes a grey
GreyMsg ==
    [Msg("SetColorMapEntries") EXCEPT
        !.FirstColor = 0, !.Colors = <<[R |-> 32639, G |-> 32639, B |-> 32639]>>]

NextPix ==
    \/ \E m \in PixelMsgs(pixelFormat.ByPP) \cup {GreyMsg} : ServerSend(m)
    \/ ReceiveMsg
    \/ UpdateColorMap
    \/ \E m \in [ID : {SetPixelFormatMID}, rpf : CallerPixelFormats], wok \in BOOLEAN :
          Len(wr) < MaxSends /\ SetPixelFormatSend(m, wok)

SpecPix == InitMsg /\ [][NextPix]_vars

(***************************************************************************)
(* Properties of the session.                                              *)
(***************************************************************************)
InRange(i, firstColor, colors) == i > firstColor /\ i <= firstColor + Len(colors)

\* C7: in palette mode, once ReceiveMsg has returned a SetColorMapEntries with
\* first colour f and colours c, f + Len(c) <= 256, the connection's colour map
\* holds c[i] at index f + i for every i.
C7_ColorMapUpdatedOnReceive ==
    (/\ last.op = "ReceiveMsg"
     /\ got # <<>>
     /\ got[Len(got)].err = ""
     /\ got[Len(got)].msg.kind = "SetColorMapEntries"
     /\ pixelFormat.rpf.TrueColor = 0
     /\ got[Len(got)].msg.FirstColor + Len(got[Len(got)].msg.Colors) <= ColorMapSize) =>
        \A i \in 1..Len(got[Len(got)].msg.Colors) :
            pixelFormat.ColorMap[got[Len(got)].msg.FirstColor + i]
                = got[Len(got)].msg.Colors[i]

\* C8: UpdateColorMap(first, colors) on a 256-entry colour map writes colors
\* into exactly the positions first .. first + Len(colors) - 1 and leaves the
\* others alone when first + Len(colors) <= 256; beyond that it returns an
\* OutOfRange error, does not crash, and leaves the colour map unchanged.
C8_UpdateColorMapRange ==
    (last.op = "UpdateColorMap" /\ Len(last.before) = ColorMapSize) =>
        IF last.first + Len(last.colors) <= ColorMapSize
        THEN /\ pc = "Ready"
             /\ err = ""
             /\ Len(pixelFormat.ColorMap) = ColorMapSize
             /\ \A i \in 1..ColorMapSize :
                   pixelFormat.ColorMap[i] =
                       IF InRange(i, last.first, last.colors)
                       THEN last.colors[i - last.first] ELSE last.before[i]
        ELSE /\ pc # "Crashed"
             /\ err = "OutOfRange"
             /\ pixelFormat.ColorMap = last.before

\* the decoder the default server-message map holds for a message id
DefaultDecoder ==
    [i \in 0..3 |-> <<"FramebufferUpdate", "SetColorMapEntries", "Bell",
                      "ServerCutText">>[i + 1]]

\* C9: a ReceiveMsg call on a stream with a byte to read takes exactly that byte
\* as the message id and hands over to the decoder registered for it; with no
\* decoder registered it returns UnknownServerMessage and no message, one byte
\* further on the stream, and no connection state has changed.
C9_Dispatch ==
    [][(got' # got /\ Has(inp, rpos, 1)) =>
          /\ got' = Append(got, got'[Len(got')])
          /\ got'[Len(got')].from = rpos
          /\ got'[Len(got')].mid = inp[rpos + 1]
          /\ IF inp[rpos + 1] \in DOMAIN config.ServerMessages
             THEN /\ got'[Len(got')].decoder = DefaultDecoder[inp[rpos + 1]]
                  /\ got'[Len(got')].err # "UnknownServerMessage"
                  /\ got'[Len(got')].err = "" =>
                        got'[Len(got')].msg.kind = DefaultDecoder[inp[rpos + 1]]
             ELSE /\ got'[Len(got')].err = "UnknownServerMessage"
                  /\ got'[Len(got')].msg = NoMsg
                  /\ rpos' = rpos + 1
                  /\ UNCHANGED <<config, protocolVersion, securityType, pixelFormat,
                                 encodingMap, FrameBufferWidth, FrameBufferHeight,
                                 DesktopName, wr>>]_vars

\* C9 witness: a Bell was delivered, then the id 255 was refused after one byte
C9_Witness ==
    /\ Len(got) = 2
    /\ got[1].msg.kind = "Bell"
    /\ got[2].mid = 255
    /\ got[2].err = "UnknownServerMessage"
    /\ got[2].to = got[2].from + 1
    /\ pc = "Failed"

\* the bytes of a rectangle: 12 header bytes and the payload of its encoding
RectLen(r, bypp) ==
    12 + (IF r.EncType = RawEncType THEN r.Width * r.Height * bypp
          ELSE IF r.EncType = CopyRectEncType THEN 4
          ELSE 0)

RECURSIVE SumRectLen(_, _)
SumRectLen(rects, bypp) ==
    IF rects = <<>> THEN 0
    ELSE RectLen(Head(rects), bypp) + SumRectLen(Tail(rects), bypp)

\* the bytes of a message on the stream, id byte included
FramedLen(m, bypp) ==
    IF m.kind = "Bell" THEN 1
    ELSE IF m.kind = "ServerCutText" THEN 1 + 3 + 4 + Len(m.Text)
    ELSE IF m.kind = "SetColorMapEntries" THEN 1 + 1 + 2 + 2 + 6 * Len(m.Colors)
    ELSE 1 + 1 + 2 + SumRectLen(m.Rectangles, bypp)

RECURSIVE SumFramedLen(_, _)
SumFramedLen(k, bypp) ==
    IF k = 0 THEN 0 ELSE SumFramedLen(k - 1, bypp) + FramedLen(sent[k], bypp)

\* a message of the four kinds whose rectangles use encodings registered in encs
WellFormed(m, encs) ==
    /\ m.kind \in {"FramebufferUpdate", "SetColorMapEntries", "Bell", "ServerCutText"}
    /\ \A i \in 1..Len(m.Rectangles) : m.Rectangles[i].EncType \in encs

\* the message returned is the message sent
SameRect(a, b) ==
    /\ a.X = b.X /\ a.Y = b.Y /\ a.Width = b.Width /\ a.Height = b.Height
    /\ a.EncType = b.EncType /\ a.SX = b.SX /\ a.SY = b.SY
    /\ a.EncType = RawEncType => Len(a.data) = 4 * b.Width * b.Height

Delivered(g, m) ==
    /\ g.kind = m.kind
    /\ g.Text = m.Text
    /\ g.FirstColor = m.FirstColor
    /\ g.Colors = m.Colors
    /\ Len(g.Rectangles) = Len(m.Rectangles)
    /\ \A i \in 1..Len(m.Rectangles) : SameRect(g.Rectangles[i], m.Rectangles[i])

\* C10: as long as the messages the server sent are well formed, the k-th
\* ReceiveMsg returns the k-th message sent and leaves the stream exactly at
\* the end of that message: Bell is 1 byte, ServerCutText 1 + 3 + 4 + length,
\* SetColorMapEntries 1 + 1 + 2 + 2 + 6n, FramebufferUpdate 1 + 1 + 2 and, per
\* rectangle in order, 12 bytes and the payload of its encoding.
C10_InOrderFraming ==
    \A k \in 1..Min({Len(got), Len(sent)}) :
        (\A i \in 1..k : WellFormed(sent[i], got[i].encs)) =>
            /\ got[k].err = ""
            /\ Delivered(got[k].msg, sent[k])
            /\ got[k].from = SumFramedLen(k - 1, got[k].bypp)
            /\ got[k].to = SumFramedLen(k, got[k].bypp)

\* C10 witness: a FramebufferUpdate of a Raw and a CopyRect rectangle, then a
\* ServerCutText, both delivered, the stream read to its end
C10_Witness ==
    /\ Len(got) = 2
    /\ got[1].err = "" /\ got[2].err = ""
    /\ got[1].msg.kind = "FramebufferUpdate"
    /\ Len(got[1].msg.Rectangles) = 2
    /\ got[1].msg.Rectangles[1].EncType = RawEncType
    /\ got[1].msg.Rectangles[2].EncType = CopyRectEncType
    /\ got[2].msg.kind = "ServerCutText"
    /\ got[2].msg.Text = <<104>>
    /\ got[2].to = Len(inp)

\* the first rectangle of m whose encoding is not in encs, 0 for none
FirstUnsupported(m, encs) ==
    IF \A i \in 1..Len(m.Rectangles) : m.Rectangles[i].EncType \in encs THEN 0
    ELSE Min({i \in 1..Len(m.Rectangles) : m.Rectangles[i].EncType \notin encs})

\* C11: a FramebufferUpdate with a rectangle whose encoding type is not a key of
\* the encoding map makes ReceiveMsg fail with UnsupportedEncoding: no message
\* is returned, and the stream stands right after the 12 header bytes of that
\* rectangle, its payload unread.
C11_UnsupportedEncoding ==
    \A k \in 1..Min({Len(got), Len(sent)}) :
        (/\ \A i \in 1..(k - 1) : WellFormed(sent[i], got[i].encs)
         /\ sent[k].kind = "FramebufferUpdate"
         /\ FirstUnsupported(sent[k], got[k].encs) > 0) =>
            /\ got[k].err = "UnsupportedEncoding"
            /\ got[k].msg = NoMsg
            /\ got[k].to = SumFramedLen(k - 1, got[k].bypp) + 4
                  + SumRectLen(SubSeq(sent[k].Rectangles, 1,
                                      FirstUnsupported(sent[k], got[k].encs) - 1),
                               got[k].bypp)
                  + 12

\* C11 witness: a Raw rectangle was decoded, then a CopyRect rectangle refused
\* while the encoding map holds Raw alone; four CopyRect payload bytes are unread
C11_Witness ==
    /\ Len(got) = 1
    /\ got[1].encs = {RawEncType}
    /\ Len(sent[1].Rectangles) = 2
    /\ sent[1].Rectangles[1].EncType = RawEncType
    /\ sent[1].Rectangles[2].EncType = CopyRectEncType
    /\ got[1].err = "UnsupportedEncoding"
    /\ got[1].msg = NoMsg
    /\ Len(inp) = got[1].to + 4

(***************************************************************************)
(* Properties of the client's sends.                                       *)
(***************************************************************************)
\* the writes of SetEncodings messages that succeeded
OkSetEncodings == {i \in 1..Len(wr) : wr[i].by = "SetEncodings" /\ wr[i].ok}

Max(S) == CHOOSE x \in S : \A y \in S : y <= x

\* the type codes a SetEncodings message lists on the wire
ListedTypes(data) == {BEI32(data, 4 * i) : i \in 1..BEU16(data, 2)}

\* C12: in every state the keys of the encoding map are Raw and the type codes
\* listed in the most recent SetEncodings whose write succeeded, Raw alone when
\* there was none: earlier lists are dropped and a failed send changes nothing.
C12_EncodingMap ==
    encodingMap = {RawEncType} \cup
        (IF OkSetEncodings = {} THEN {}
         ELSE ListedTypes(wr[Max(OkSetEncodings)].data))

\* C12 witness: CopyRect was registered, then Hextile and Cursor instead, and a
\* third send would find CopyRect gone
C12_Witness ==
    /\ Len(wr) = 2
    /\ wr[1].by = "SetEncodings" /\ wr[1].ok
    /\ ListedTypes(wr[1].data) = {CopyRectEncType}
    /\ wr[2].by = "SetEncodings" /\ wr[2].ok
    /\ encodingMap = {RawEncType, HextileEncType, CursorPseudoEncType}

\* C12 second case reached as well: a failed SetEncodings after a successful one
C12_FailedReached ==
    /\ Len(wr) = 2
    /\ wr[1].by = "SetEncodings" /\ wr[1].ok
    /\ wr[2].by = "SetEncodings" /\ ~wr[2].ok
    /\ ListedTypes(wr[2].data) = {HextileEncType, CursorPseudoEncType}
    /\ encodingMap = {RawEncType, CopyRectEncType}

\* C13: after a SetPixelFormat send whose write succeeded the pixel format is
\* the one of the message, with BPP / 8 bytes per pixel and a fresh colour map
\* of 256 entries when it is not true colour, none otherwise; after one whose
\* write failed the pixel format is what it was; and in every state the colour
\* map has 256 entries exactly when the pixel format is not true colour.
C13_SetPixelFormat ==
    /\ (Len(pixelFormat.ColorMap) = ColorMapSize) <=> (pixelFormat.rpf.TrueColor = 0)
    /\ Len(pixelFormat.ColorMap) \in {0, ColorMapSize}
    /\ (last.op = "SendMsg" /\ last.kind = "SetPixelFormat") =>
          IF last.status = ""
          THEN /\ pixelFormat.rpf = last.msg.rpf
               /\ pixelFormat.ByPP * 8 = last.msg.rpf.BPP
               /\ pixelFormat.ColorMap =
                     IF last.msg.rpf.TrueColor = 0
                     THEN [i \in 1..ColorMapSize |-> Black] ELSE <<>>
          ELSE pixelFormat = last.pf

\* C13 witness: the palette held white at index 0 when a SetPixelFormat to the
\* palette format succeeded; the entry is black again
C13_Witness ==
    /\ last.op = "SendMsg"
    /\ last.kind = "SetPixelFormat"
    /\ last.status = ""
    /\ last.msg.rpf = PF8
    /\ Len(last.pf.ColorMap) = ColorMapSize
    /\ last.pf.ColorMap[1] = White
    /\ pixelFormat.ColorMap[1] = Black

\* the id fixed for each kind of client message
FixedID(kind) ==
    IF kind = "SetPixelFormat" THEN SetPixelFormatMID
    ELSE IF kind = "SetEncodings" THEN SetEncodingsMID
    ELSE IF kind = "FramebufferUpdateRequest" THEN FramebufferUpdateRequestMID
    ELSE IF kind = "KeyEvent" THEN KeyEventMID
    ELSE IF kind = "PointerEvent" THEN PointerEventMID
    ELSE ClientCutTextMID

\* the padding and fields that follow the id byte, in the documented order
FieldsAfterID(kind, m) ==
    IF kind = "SetPixelFormat" THEN <<0, 0, 0>> \o RFBPixelFormatBytes(m.rpf)
    ELSE IF kind = "SetEncodings"
    THEN <<0>> \o U16(Len(m.Encodings))
            \o Concat([i \in 1..Len(m.Encodings) |-> I32(m.Encodings[i])])
    ELSE IF kind = "FramebufferUpdateRequest"
    THEN <<m.Incremental>> \o U16(m.X) \o U16(m.Y) \o U16(m.Width) \o U16(m.Height)
    ELSE IF kind = "KeyEvent" THEN <<m.DownFlag, 0, 0>> \o U32(m.Key)
    ELSE IF kind = "PointerEvent" THEN <<m.ButtonMask>> \o U16(m.X) \o U16(m.Y)
    ELSE <<0, 0, 0>>

\* C14: whatever is in the ID field of the message passed to SendMsg, the first
\* byte written is the id fixed for its kind (SetPixelFormat 0, SetEncodings 2,
\* FramebufferUpdateRequest 3, KeyEvent 4, PointerEvent 5, ClientCutText 6),
\* followed by the padding and fields of the kind in the documented order.
C14_ClientMessageIDs ==
    (last.op = "SendMsg" /\ Len(wr) > last.from) =>
        /\ wr[Len(wr)].data[1] = FixedID(last.kind)
        /\ IsPrefix(FieldsAfterID(last.kind, last.msg), Tail(wr[Len(wr)].data))

\* C15: a ClientCutText whose text holds a character beyond 0xFF, wherever in
\* the text, fails with InvalidText; nothing is written and the connection
\* state is what it was.
C15_InvalidText ==
    (/\ last.op = "SendMsg"
     /\ last.kind = "ClientCutText"
     /\ \E i \in 1..Len(Runes(last.msg.Text)) : Runes(last.msg.Text)[i] > 255) =>
        /\ err = "InvalidText"
        /\ last.status = "InvalidText"
        /\ Len(wr) = last.from
        /\ pixelFormat = last.pf
        /\ encodingMap = last.encs
        /\ pc = "Ready"

\* C15 witness: "A" followed by U+0100 was refused and nothing was written
C15_Witness ==
    /\ last.op = "SendMsg"
    /\ last.kind = "ClientCutText"
    /\ Runes(last.msg.Text) = <<65, 256>>
    /\ err = "InvalidText"
    /\ wr = <<>>

\* C16: for a text whose characters are all at most 0xFF, the length written is
\* the number of characters and the payload is one byte per character, the
\* character's code point.
C16_Latin1Payload ==
    (/\ last.op = "SendMsg"
     /\ last.kind = "ClientCutText"
     /\ \A i \in 1..Len(Runes(last.msg.Text)) : Runes(last.msg.Text)[i] <= 255) =>
        /\ Len(wr) = last.from + 1
        /\ SubSeq(wr[Len(wr)].data, 5, 8) = U32(Len(Runes(last.msg.Text)))
        /\ SubSeq(wr[Len(wr)].data, 9, Len(wr[Len(wr)].data)) = Runes(last.msg.Text)

\* C17: for every configuration passed to NewClientConn, one without a
\* server-message map and one that maps ids 0..3 to other decoders included,
\* the call completes and the map of the connection then maps 0, 1, 2, 3 to
\* the FramebufferUpdate, SetColorMapEntries, Bell and ServerCutText decoders
\* and keeps every entry of the caller for another id.
C17_ServerMessagesAugmented ==
    [][NewClientConn =>
          /\ pc' = "ProtocolVersion"
          /\ \A i \in 0..3 : /\ i \in DOMAIN config'.ServerMessages
                             /\ config'.ServerMessages[i] = DefaultDecoder[i]
          /\ \A i \in DOMAIN config.ServerMessages \ (0..3) :
                /\ i \in DOMAIN config'.ServerMessages
                /\ config'.ServerMessages[i] = config.ServerMessages[i]]_vars

\* the updates of one rectangle of the encoding, received without error
ReceivedRects(encType) ==
    {i \in 1..Len(got) :
        /\ got[i].err = ""
        /\ got[i].msg.kind = "FramebufferUpdate"
        /\ Len(got[i].msg.Rectangles) = 1
        /\ got[i].msg.Rectangles[1].EncType = encType}

\* the payload of that rectangle starts after the 4 bytes of the message header
\* and the 12 bytes of the rectangle header
PayloadAt(i) == got[i].from + 16

\* bit 7 - x mod 8 of mask byte y * ceil(W/8) + floor(x/8)
MaskBit(mask, w, x, y) ==
    (mask[y * ((w + 7) \div 8) + (x \div 8) + 1] \div (2 ^ (7 - (x % 8)))) % 2

CursorAsClaimed(rect, px, mask) ==
    \A x \in 0..(rect.Width - 1), y \in 0..(rect.Height - 1) :
        SubSeq(rect.data, 4 * (y * rect.Width + x) + 1, 4 * (y * rect.Width + x) + 4)
          = IF MaskBit(mask, rect.Width, x, y) = 0 THEN <<0, 0, 0, 0>>
            ELSE SubSeq(px.rgba, 4 * (y * rect.Width + x) + 1,
                        4 * (y * rect.Width + x) + 4)

\* C18: for a cursor rectangle of width W and height H the decoder reads W*H
\* pixels and then ceil(W/8)*H mask bytes, and the RGBA of pixel (x, y) is
\* (0,0,0,0) if bit 7 - x mod 8 of mask byte y*ceil(W/8) + floor(x/8) is 0 and
\* the decoded pixel, alpha 255, if it is 1.
C18_CursorMask ==
    \A i \in ReceivedRects(CursorPseudoEncType) :
        /\ got[i].to = PayloadAt(i)
              + got[i].msg.Rectangles[1].Width * got[i].msg.Rectangles[1].Height
                  * pixelFormat.ByPP
              + ((got[i].msg.Rectangles[1].Width + 7) \div 8)
                  * got[i].msg.Rectangles[1].Height
        /\ CursorAsClaimed(got[i].msg.Rectangles[1],
              ReadPixels(pixelFormat, inp, PayloadAt(i),
                         got[i].msg.Rectangles[1].Width
                             * got[i].msg.Rectangles[1].Height),
              Bytes(inp, PayloadAt(i)
                           + got[i].msg.Rectangles[1].Width
                               * got[i].msg.Rectangles[1].Height * pixelFormat.ByPP,
                    ((got[i].msg.Rectangles[1].Width + 7) \div 8)
                        * got[i].msg.Rectangles[1].Height))

\* the tiles of a W x H rectangle in raster order, with the sizes claimed
TilesAsClaimed(tiles, w, h) ==
    /\ Len(tiles) = ((w + 15) \div 16) * ((h + 15) \div 16)
    /\ \A k \in 1..Len(tiles) :
          /\ tiles[k].tx = 16 * ((k - 1) % ((w + 15) \div 16))
          /\ tiles[k].ty = 16 * ((k - 1) \div ((w + 15) \div 16))
          /\ tiles[k].tw = Min({16, w - tiles[k].tx})
          /\ tiles[k].th = Min({16, h - tiles[k].ty})
          /\ k > 1 => tiles[k].at > tiles[k - 1].at

HextileAsClaimed(i, rect, run) ==
    /\ run.err = ""
    /\ run.img = rect.data
    /\ run.pos = got[i].to
    /\ TilesAsClaimed(run.tiles, rect.Width, rect.Height)
    /\ run.tiles[1].at = PayloadAt(i)
    /\ \A n \in 1..(rect.Width * rect.Height) : run.cnt[n] >= 1

\* C19: for a Hextile rectangle of width W and height H the tiles are visited
\* left to right, rows top to bottom, one subencoding byte is read per tile,
\* the tile at column tx is min(16, W - tx) wide and the tile at row ty is
\* min(16, H - ty) high, in every row of tiles, and every pixel of the W x H
\* output is written at least once.
C19_HextileTiling ==
    \A i \in ReceivedRects(HextileEncType) :
        HextileAsClaimed(i, got[i].msg.Rectangles[1],
                         HextileRun(pixelFormat, inp, PayloadAt(i),
                                    got[i].msg.Rectangles[1].Width,
                                    got[i].msg.Rectangles[1].Height))

\* C19 witness: a 17 x 17 rectangle of four tiles was decoded, its third tile
\* (16 x 1, of the second row) raw and its first a background fill
C19_Witness ==
    \E i \in ReceivedRects(HextileEncType) :
        /\ got[i].msg.Rectangles[1].Width = 17
        /\ got[i].msg.Rectangles[1].Height = 17
        /\ inp[PayloadAt(i) + 1] = 2
        /\ \E k \in (PayloadAt(i) + 1)..got[i].to :
              /\ inp[k + 1] = 1
              /\ HextileRun(pixelFormat, inp, PayloadAt(i), 17, 17).tiles[3].at = k

\* C20: with a consumer in ReceiveMsg and a producer in SendMsg on the same
\* connection, the pixel format and the encoding map do not change while a
\* FramebufferUpdate is decoded: all rectangles of one update are decoded
\* against the same pixel format and the same encoding map, however a
\* SetPixelFormat or SetEncodings send interleaves.
C20_NoRace ==
    \A i \in 1..Len(got) :
        \A j, k \in 1..Len(got[i].used) : got[i].used[j] = got[i].used[k]

\* the pixel of the connection's format at offset p of the stream, decoded
ColourAt(p) == ReadPixels(pixelFormat, inp, p, 1).rgba

SubBit(sub, b) == (sub \div (2 ^ b)) % 2

\* background, foreground and stream position as tile k left them
BgAfter(run, k) == IF k < Len(run.tiles) THEN run.tiles[k + 1].bg ELSE run.bg
FgAfter(run, k) == IF k < Len(run.tiles) THEN run.tiles[k + 1].fg ELSE run.fg
PosAfter(run, k) == IF k < Len(run.tiles) THEN run.tiles[k + 1].at ELSE run.pos

SubsOf(run, k) == {j \in 1..Len(run.subs) : run.subs[j].tile = k}

RawTileAsClaimed(run, k) ==
    /\ BgAfter(run, k) = run.tiles[k].bg
    /\ FgAfter(run, k) = run.tiles[k].fg
    /\ PosAfter(run, k) = run.tiles[k].at + 1
                            + run.tiles[k].tw * run.tiles[k].th * pixelFormat.ByPP
    /\ SubsOf(run, k) = {}

TileColoursAsClaimed(run, k, sub) ==
    /\ BgAfter(run, k) = IF SubBit(sub, 1) = 1 THEN ColourAt(run.tiles[k].at + 1)
                         ELSE run.tiles[k].bg
    /\ FgAfter(run, k) = IF SubBit(sub, 2) = 1
                         THEN ColourAt(run.tiles[k].at + 1
                                         + SubBit(sub, 1) * pixelFormat.ByPP)
                         ELSE run.tiles[k].fg
    /\ SubBit(sub, 3) = 0 => SubsOf(run, k) = {}
    /\ \A j \in SubsOf(run, k) :
          /\ run.subs[j].fg = FgAfter(run, k)
          /\ run.subs[j].c = IF SubBit(sub, 4) = 0 THEN FgAfter(run, k)
                             ELSE ColourAt(run.subs[j].at - pixelFormat.ByPP)

ColoursAsClaimed(run) ==
    /\ run.err = ""
    /\ run.tiles[1].bg = <<0, 0, 0, 255>>
    /\ run.tiles[1].fg = <<0, 0, 0, 255>>
    /\ \A k \in 1..Len(run.tiles) :
          IF SubBit(inp[run.tiles[k].at + 1], 0) = 1 THEN RawTileAsClaimed(run, k)
          ELSE TileColoursAsClaimed(run, k, inp[run.tiles[k].at + 1])

\* C21: within one Hextile rectangle background and foreground start as black;
\* a tile that is not raw sets each to the pixel it reads when the bit of
\* BackgroundSpecified or ForegroundSpecified is set and keeps it otherwise, as
\* the tile before left it; a raw tile reads its tw*th pixels only and leaves
\* both; subrectangles are drawn in the current foreground, or each in its own
\* colour when SubrectsColoured is set, the foreground staying as it is.
C21_HextileColours ==
    \A i \in ReceivedRects(HextileEncType) :
        ColoursAsClaimed(HextileRun(pixelFormat, inp, PayloadAt(i),
                                    got[i].msg.Rectangles[1].Width,
                                    got[i].msg.Rectangles[1].Height))

\* the tiles of the 33 x 1 rectangle: colours given, raw with further bits set,
\* one subrectangle in the colours carried over the raw tile
CarriedOverRaw(run) ==
    /\ Len(run.tiles) = 3
    /\ inp[run.tiles[2].at + 1] = 11
    /\ inp[run.tiles[3].at + 1] = 8
    /\ run.tiles[3].bg # <<0, 0, 0, 255>>
    /\ run.tiles[3].fg # run.tiles[3].bg
    /\ run.fg = run.tiles[2].fg
    /\ Len(run.subs) = 2
    /\ run.subs[2].c = run.tiles[2].fg

\* C21 witness: the 33 x 1 rectangle was decoded in true colour
C21_Witness ==
    \E i \in ReceivedRects(HextileEncType) :
        /\ got[i].msg.Rectangles[1].Width = 33
        /\ CarriedOverRaw(HextileRun(pixelFormat, inp, PayloadAt(i), 33, 1))

\* the tile of the run that holds pixel n (from 0, row by row) of the image
TileOf(run, w, n) ==
    CHOOSE k \in 1..Len(run.tiles) :
        InRect(n, w, run.tiles[k].tx, run.tiles[k].ty,
               run.tiles[k].tx + run.tiles[k].tw, run.tiles[k].ty + run.tiles[k].th)

\* the subrectangles of tile k whose box, as packed in the two bytes at .at,
\* holds pixel n
SubsOver(run, w, k, n) ==
    {j \in SubsOf(run, k) :
        InRect(n, w,
               run.tiles[k].tx + (inp[run.subs[j].at + 1] \div 16),
               run.tiles[k].ty + (inp[run.subs[j].at + 1] % 16),
               run.tiles[k].tx + (inp[run.subs[j].at + 1] \div 16)
                   + (inp[run.subs[j].at + 2] \div 16) + 1,
               run.tiles[k].ty + (inp[run.subs[j].at + 1] % 16)
                   + (inp[run.subs[j].at + 2] % 16) + 1)}

\* pixel n as the data of its own tile k alone give it: the raw pixel, or the
\* last of the tile's subrectangles over it, or the tile's background
OwnPixel(run, w, k, n) ==
    IF SubBit(inp[run.tiles[k].at + 1], 0) = 1
    THEN SubSeq(ReadPixels(pixelFormat, inp, run.tiles[k].at + 1,
                           run.tiles[k].tw * run.tiles[k].th).rgba,
                4 * (((n \div w) - run.tiles[k].ty) * run.tiles[k].tw
                       + ((n % w) - run.tiles[k].tx)) + 1,
                4 * (((n \div w) - run.tiles[k].ty) * run.tiles[k].tw
                       + ((n % w) - run.tiles[k].tx)) + 4)
    ELSE IF SubsOver(run, w, k, n) = {} THEN BgAfter(run, k)
    ELSE run.subs[Max(SubsOver(run, w, k, n))].c

TilesIsolated(rect, run) ==
    /\ run.err = ""
    /\ Len(rect.data) = 4 * rect.Width * rect.Height
    /\ DOMAIN run.cnt = 1..(rect.Width * rect.Height)
    /\ \A n \in 0..(rect.Width * rect.Height - 1) :
          SubSeq(rect.data, 4 * n + 1, 4 * n + 4)
            = OwnPixel(run, rect.Width, TileOf(run, rect.Width, n), n)

\* C24: in the image of a Hextile rectangle every pixel has the value its own
\* tile gives it (raw pixels, or background and the tile's own subrectangles,
\* in the colours carried); a subrectangle that reaches past the right or
\* bottom edge of its tile decides no pixel of another tile and writes nothing
\* outside the W x H image.
C24_HextileTileIsolation ==
    \A i \in ReceivedRects(HextileEncType) :
        TilesIsolated(got[i].msg.Rectangles[1],
                      HextileRun(pixelFormat, inp, PayloadAt(i),
                                 got[i].msg.Rectangles[1].Width,
                                 got[i].msg.Rectangles[1].Height))

\* the first tile's subrectangle starts at column 15 and is 16 wide: pixel 20,
\* of the second tile, was written by it and again by the second tile, whose
\* background it shows
SpilledAndOverwritten(rect, run) ==
    /\ Len(run.tiles) = 2
    /\ run.subs[1].tile = 1
    /\ inp[run.subs[1].at + 1] = 240
    /\ inp[run.subs[1].at + 2] = 240
    /\ run.cnt[21] = 2
    /\ run.subs[1].c # run.bg
    /\ SubSeq(rect.data, 81, 84) = run.bg
    /\ SubSeq(rect.data, 61, 64) = run.subs[1].c

\* C24 witness: the 32 x 1 rectangle was decoded in true colour
C24_Witness ==
    \E i \in ReceivedRects(HextileEncType) :
        /\ got[i].msg.Rectangles[1].Width = 32
        /\ got[i].msg.Rectangles[1].Height = 1
        /\ SpilledAndOverwritten(got[i].msg.Rectangles[1],
                                 HextileRun(pixelFormat, inp, PayloadAt(i), 32, 1))

\* C22: whenever the connection holds a pixel format, after ServerInit and
\* after any SetPixelFormat sends, its bits per pixel are 8, 16 or 32 and at
\* least its depth; a record that is not so is never installed.
C22_PixelFormatInvariant ==
    ~pixelFormat.nil =>
        /\ pixelFormat.rpf.BPP \in {8, 16, 32}
        /\ pixelFormat.rpf.BPP >= pixelFormat.rpf.Depth

\* the next message on the stream is an update of one Raw rectangle of one pixel
RawPixelAhead ==
    /\ Has(inp, rpos, 16 + pixelFormat.ByPP)
    /\ inp[rpos + 1] = FramebufferUpdateMID
    /\ BEU16(inp, rpos + 2) = 1
    /\ BEU16(inp, rpos + 8) = 1
    /\ BEU16(inp, rpos + 10) = 1
    /\ BEI32(inp, rpos + 12) = RawEncType

\* its pixel value, assembled from ByPP bytes
PixelAhead == PixelValue(pixelFormat, Bytes(inp, rpos + 16, pixelFormat.ByPP))

\* the colour-map entry of a pixel value, scaled to 8 bits, alpha 255
PaletteRGBA(v) ==
    <<scaleToUint8(pixelFormat.ColorMap[v + 1].R, 65535),
      scaleToUint8(pixelFormat.ColorMap[v + 1].G, 65535),
      scaleToUint8(pixelFormat.ColorMap[v + 1].B, 65535), 255>>

\* C23: in palette mode a pixel whose value is 256 or more makes ReceiveMsg
\* return an OutOfRange error, with no pixel returned and no crash; a value
\* below 256 gives the scaled colour-map entry at that index.
C23_PaletteIndexBounds ==
    [][(got' # got /\ pixelFormat.rpf.TrueColor = 0 /\ RawPixelAhead) =>
          IF PixelAhead >= ColorMapSize
          THEN /\ err' = "OutOfRange"
               /\ pc' = "Failed"
               /\ got'[Len(got')].msg = NoMsg
          ELSE /\ err' = ""
               /\ got'[Len(got')].msg.Rectangles[1].data = PaletteRGBA(PixelAhead)]_vars

\* the half of C23 about pixel values inside the colour map
C23_InsideTheMap ==
    [][(got' # got /\ pixelFormat.rpf.TrueColor = 0 /\ RawPixelAhead
          /\ PixelAhead < ColorMapSize) =>
          /\ err' = ""
          /\ got'[Len(got')].msg.Rectangles[1].data = PaletteRGBA(PixelAhead)]_vars

====
